---- MODULE Spec2Model ----
(***************************************************************************)
(* Model of 2Bored2Tolerate: the ProxyManager connection lifecycle and     *)
(* its text extractor (src/src/proxy.js), the ETALearner                   *)
(* (src/src/eta-learner.js), the AntiAFK scheduler with the bot it steers  *)
(* (src/unnamed/part_003) and the two queue learner scripts                *)
(* (src/unnamed/part_001, src/src/queuelearner.js).                        *)
(*                                                                         *)
(* Every handler of the program runs to completion on the single event     *)
(* loop, so every handler is one action.  A method is an operator from a   *)
(* snapshot of the object's fields (the record This) to the snapshot it    *)
(* leaves; an action commits the snapshot its handler returns.             *)
(***************************************************************************)
EXTENDS Integers, Sequences, FiniteSets, TLC

(***************************************************************************)
(* Bounds of the model.                                                    *)
(***************************************************************************)
MaxPings == 1
MaxOrphanTimers == 1
MaxStaleEnds == 1
MaxStalePlayerEnds == 1
MaxOrphanAfk == 1
MaxSessionSamples == 2     \* live samples held in the session model
MaxQueueSamples == 3       \* live samples in the window before a position reading is taken
MaxNotified == 2           \* desktop notifications counted per connection
MaxCollectorSessions == 2  \* connections the queue learner opens in one run
MaxCollectorTimers == 2    \* reconnect timers of the queue learner pending at once
MaxRecorded == 2           \* recordSession calls of src/queuelearner.js in one run
MaxStride == 2             \* blocks the entity can cover in one walk of at most 500 ms
MaxRange == 3              \* the model follows the entity this far along each axis
StartClock == 302400000    \* Date.now() at construction (ms after the reference instant)

(***************************************************************************)
(* Program constants.                                                      *)
(***************************************************************************)
Null == -1                 \* null, for a field that otherwise holds a number
DONE == -2                 \* 'DONE', the queuePlace once the queue has finished
NOTIFY_THRESHOLD == 20     \* config.notifications.threshold (DESKTOP_NOTIFY_POSITION)
MAX_SESSIONS == 500
SAMPLE_WINDOW == 30        \* recordSample keeps the last 30 samples
MIN_SESSION_MS == 120000   \* 2 * 60 * 1000
MAX_RATE == 10000
MS_PER_HOUR == 3600000
MS_PER_DAY == 86400000
MAX_DRIFT == 2             \* antiafk.js: blocks from origin before returning
RELOG_THRESHOLD == 30      \* the queue learner re-queues at or under this position
RUN_DURATION == 604800000  \* runDays * 24 * 3600 * 1000 with the default of 7 days

\* 'None', the queuePlace and lastQueuePlace before the first position reading
None == Null

VARIABLES
  cfgReconnectOnError,  \* config.reconnectOnError
  cfgAntiAfkEnabled,    \* config.antiAfk.enabled
  conn,                 \* this.conn !== null
  client,               \* this.client !== null
  server,               \* this.server !== null
  proxyClient,          \* this.proxyClient !== null
  antiAfk,              \* this.antiAfk: "null", or its instance "stopped" / "running"
  finishedQueue,
  stoppedByPlayer,
  notificationSent,
  reconnectTimer,       \* this.reconnectTimer: "null", a "pending" timer, or the handle of a "fired" one
  antiAfkPending,
  queueHandlingSetup,   \* this._queueHandlingSetup
  state,                \* this.state
  sock,                 \* the upstream client's socket: "none", "open", "errored" ('error' emitted, 'end' to come), "ended"
  staleEnds,            \* clients ended by _cleanup whose 'end' event has not fired yet
  playerLive,           \* a player socket is logged in on the local server
  stalePlayerEnds,      \* player sockets ended by the proxy whose 'end' event has not fired yet
  orphanAfk,            \* running AntiAFK instances this.antiAfk no longer refers to
  orphanTimers,         \* pending reconnect timers this.reconnectTimer no longer refers to
  pings,                \* mc.ping calls in flight
  logged,               \* number of _log entries the last handler appended
  operatorStopped,      \* history: the operator's last start()/stop() command was stop()
  cfgNotify,            \* config.notifications.enabled
  lastQueuePlace,       \* lastQueuePlace of _setupQueueHandling: the connection's previous position reading
  positionError,        \* positionError of _setupQueueHandling
  effects,              \* what the last handler sent out: events emitted, "chartPoint", "notification"
  notified,             \* history: notifier.notify calls since the connection was created
  collector,            \* the queue learner script with the tab-header handler: its module state
  ql,                   \* src/queuelearner.js: its module state
  afk,                  \* an AntiAFK instance with its bot's controls and position
  chat,                 \* _extractChatText: the component handed in and what came back
  etaLearner,           \* this.etaLearner: the ETALearner's fields, and the contents of its data file
  now,                  \* Date.now(), in ms since the model's reference instant (a Thursday, 00:00)
  estimate,             \* the last estimateMinutes call: its arguments and its result
  called                \* history: the ETALearner method called last, "none" before the first call

vars == <<cfgReconnectOnError, cfgAntiAfkEnabled, conn, client, server, proxyClient,
          antiAfk, finishedQueue, stoppedByPlayer, notificationSent, reconnectTimer,
          antiAfkPending, queueHandlingSetup, state, sock, staleEnds, playerLive,
          stalePlayerEnds, orphanAfk, orphanTimers, pings, logged, operatorStopped,
          cfgNotify, lastQueuePlace, positionError, effects, notified,
          collector, ql, afk, chat,
          etaLearner, now, estimate, called>>

proxyVars == <<cfgReconnectOnError, cfgAntiAfkEnabled, conn, client, server, proxyClient,
               antiAfk, finishedQueue, stoppedByPlayer, notificationSent, reconnectTimer,
               antiAfkPending, queueHandlingSetup, state, sock, staleEnds, playerLive,
               stalePlayerEnds, orphanAfk, orphanTimers, pings, logged, operatorStopped,
               cfgNotify, lastQueuePlace, positionError, effects, notified>>

\* the programs and classes that run apart from the proxy
standaloneVars == <<collector, ql, afk, chat>>

(***************************************************************************)
(* The fields of the ProxyManager (and of the sockets and timers it owns)  *)
(* as one record, at the start of a handler.                               *)
(***************************************************************************)
This ==
  [conn |-> conn, client |-> client, server |-> server, proxyClient |-> proxyClient,
   antiAfk |-> antiAfk, finishedQueue |-> finishedQueue,
   stoppedByPlayer |-> stoppedByPlayer, notificationSent |-> notificationSent,
   reconnectTimer |-> reconnectTimer, antiAfkPending |-> antiAfkPending,
   queueHandlingSetup |-> queueHandlingSetup, state |-> state, sock |-> sock,
   staleEnds |-> staleEnds, playerLive |-> playerLive,
   stalePlayerEnds |-> stalePlayerEnds, orphanAfk |-> orphanAfk,
   orphanTimers |-> orphanTimers, pings |-> pings, logged |-> 0,
   lastQueuePlace |-> lastQueuePlace, positionError |-> positionError,
   effects |-> {}, notified |-> notified,
   etaLearner |-> etaLearner, called |-> called, estimate |-> estimate]

InBounds(m) ==
  /\ m.pings <= MaxPings
  /\ m.orphanTimers <= MaxOrphanTimers
  /\ m.staleEnds <= MaxStaleEnds
  /\ m.stalePlayerEnds <= MaxStalePlayerEnds
  /\ m.orphanAfk <= MaxOrphanAfk
  /\ m.notified <= MaxNotified

Commit(m) ==
  /\ InBounds(m)
  /\ conn' = m.conn
  /\ client' = m.client
  /\ server' = m.server
  /\ proxyClient' = m.proxyClient
  /\ antiAfk' = m.antiAfk
  /\ finishedQueue' = m.finishedQueue
  /\ stoppedByPlayer' = m.stoppedByPlayer
  /\ notificationSent' = m.notificationSent
  /\ reconnectTimer' = m.reconnectTimer
  /\ antiAfkPending' = m.antiAfkPending
  /\ queueHandlingSetup' = m.queueHandlingSetup
  /\ state' = m.state
  /\ sock' = m.sock
  /\ staleEnds' = m.staleEnds
  /\ playerLive' = m.playerLive
  /\ stalePlayerEnds' = m.stalePlayerEnds
  /\ orphanAfk' = m.orphanAfk
  /\ orphanTimers' = m.orphanTimers
  /\ pings' = m.pings
  /\ logged' = m.logged
  /\ etaLearner' = m.etaLearner
  /\ called' = m.called
  /\ estimate' = m.estimate
  /\ lastQueuePlace' = m.lastQueuePlace
  /\ positionError' = m.positionError
  /\ effects' = m.effects
  /\ notified' = m.notified
  /\ UNCHANGED <<cfgReconnectOnError, cfgAntiAfkEnabled, cfgNotify, now, standaloneVars>>

(***************************************************************************)
(* Arithmetic.  The program computes in double-precision floating point;   *)
(* the model computes the same quantities as exact fractions num/den.      *)
(***************************************************************************)
Max(a, b) == IF a >= b THEN a ELSE b
Min(a, b) == IF a <= b THEN a ELSE b
Abs(a) == IF a < 0 THEN -a ELSE a

RECURSIVE Gcd(_, _)
Gcd(a, b) == IF b = 0 THEN a ELSE Gcd(b, a % b)

\* Math.round(n / d) for d > 0: the nearest integer, halves rounded up
MathRound(n, d) == (n \div d) + (IF 2 * (n % d) >= d THEN 1 ELSE 0)

\* a fraction in lowest terms, with a positive denominator
Frac(n, d) ==
  LET g == Gcd(Abs(n), Abs(d))
      sgn == IF d < 0 THEN -1 ELSE 1
  IN [num |-> sgn * (n \div g), den |-> sgn * (d \div g)]

FracAdd(x, y) ==
  LET g == Gcd(x.den, y.den)
  IN Frac(x.num * (y.den \div g) + y.num * (x.den \div g), (x.den \div g) * y.den)
FracMul(x, y) ==
  LET a == Frac(x.num, y.den)
      b == Frac(y.num, x.den)
  IN [num |-> a.num * b.num, den |-> a.den * b.den]
FracInv(x) == Frac(x.den, x.num)
\* x < y and x <= y for fractions with positive denominators
FracLess(x, y) == x.num * y.den < y.num * x.den
FracLeq(x, y) == x.num * y.den <= y.num * x.den

\* Date.getHours() and Date.getDay() of an instant (time zone of the reference instant)
GetHours(t) == (t \div MS_PER_HOUR) % 24
GetDay(t) == ((t \div MS_PER_DAY) + 4) % 7

(***************************************************************************)
(* ETALearner (src/src/eta-learner.js).  L is the record of its fields:    *)
(* sessions, activeSamples, sessionStartPos, sessionStartTime, and         *)
(* dataFile, the session list held by the file at this.dataPath.           *)
(***************************************************************************)
\* !x for a field holding null or a number
Falsy(x) == x = Null \/ x = 0

\* _load(), called by the constructor; file: the session list the data file holds
NewLearner(file) ==
  [sessions |-> file, activeSamples |-> <<>>, sessionStartPos |-> Null,
   sessionStartTime |-> Null, dataFile |-> file]

\* _save(); saveOk: the write did not throw
Save(L, saveOk) == IF saveOk THEN [L EXCEPT !.dataFile = L.sessions] ELSE L

\* beginSession(startPos) at time t
BeginSession(L, startPos, t) ==
  [L EXCEPT !.sessionStartPos = startPos, !.sessionStartTime = t,
            !.activeSamples = <<[time |-> t, pos |-> startPos]>>]

\* recordSample() that drops the oldest sample one sample too early (>= 30)
RecordSample_OffByOne(L, pos, t) ==
  LET pushed == Append(L.activeSamples, [time |-> t, pos |-> pos])
  IN [L EXCEPT !.activeSamples =
        IF Len(pushed) >= SAMPLE_WINDOW THEN Tail(pushed) ELSE pushed]

\* recordSample(pos) at time t
RecordSample(L, pos, t) ==
  LET pushed == Append(L.activeSamples, [time |-> t, pos |-> pos])
  IN [L EXCEPT !.activeSamples =
        IF Len(pushed) > SAMPLE_WINDOW THEN Tail(pushed) ELSE pushed]

\* Math.round(this.sessionStartPos / durationHours)
PositionsPerHour(startPos, durationMs) == MathRound(startPos * MS_PER_HOUR, durationMs)

\* recordCompletedSession() with a sanity check that lets a rate of 0 through
RecordCompletedSession_ZeroRate(L, t, saveOk) ==
  IF Falsy(L.sessionStartPos) \/ Falsy(L.sessionStartTime) THEN L
  ELSE
    LET durationMs == t - L.sessionStartTime
    IN IF durationMs < MIN_SESSION_MS THEN L
       ELSE
         LET positionsPerHour == PositionsPerHour(L.sessionStartPos, durationMs)
         IN IF positionsPerHour < 0 \/ positionsPerHour > MAX_RATE THEN L
            ELSE
              LET session == [startPos |-> L.sessionStartPos,
                              startTimeMs |-> L.sessionStartTime,
                              endTimeMs |-> t,
                              durationMs |-> durationMs,
                              dayOfWeek |-> GetDay(L.sessionStartTime),
                              startHour |-> GetHours(L.sessionStartTime),
                              positionsPerHour |-> positionsPerHour]
                  pushed == Append(L.sessions, session)
                  kept == IF Len(pushed) > MAX_SESSIONS THEN Tail(pushed) ELSE pushed
              IN [Save([L EXCEPT !.sessions = kept], saveOk)
                    EXCEPT !.sessionStartPos = Null, !.sessionStartTime = Null,
                           !.activeSamples = <<>>]

\* recordCompletedSession() whose _save lets the write error escape: the
\* statements after the call do not run
RecordCompletedSession_SaveThrows(L, t, saveOk) ==
  IF Falsy(L.sessionStartPos) \/ Falsy(L.sessionStartTime) THEN L
  ELSE
    LET durationMs == t - L.sessionStartTime
    IN IF durationMs < MIN_SESSION_MS THEN L
       ELSE
         LET positionsPerHour == PositionsPerHour(L.sessionStartPos, durationMs)
         IN IF positionsPerHour <= 0 \/ positionsPerHour > MAX_RATE THEN L
            ELSE
              LET session == [startPos |-> L.sessionStartPos,
                              startTimeMs |-> L.sessionStartTime,
                              endTimeMs |-> t,
                              durationMs |-> durationMs,
                              dayOfWeek |-> GetDay(L.sessionStartTime),
                              startHour |-> GetHours(L.sessionStartTime),
                              positionsPerHour |-> positionsPerHour]
                  pushed == Append(L.sessions, session)
                  kept == IF Len(pushed) > MAX_SESSIONS THEN Tail(pushed) ELSE pushed
              IN IF ~saveOk THEN [L EXCEPT !.sessions = kept]
                 ELSE [Save([L EXCEPT !.sessions = kept], saveOk)
                         EXCEPT !.sessionStartPos = Null, !.sessionStartTime = Null,
                                !.activeSamples = <<>>]

\* recordCompletedSession() at time t
RecordCompletedSession(L, t, saveOk) ==
  IF Falsy(L.sessionStartPos) \/ Falsy(L.sessionStartTime) THEN L
  ELSE
    LET durationMs == t - L.sessionStartTime
    IN IF durationMs < MIN_SESSION_MS THEN L
       ELSE
         LET positionsPerHour == PositionsPerHour(L.sessionStartPos, durationMs)
         IN IF positionsPerHour <= 0 \/ positionsPerHour > MAX_RATE THEN L
            ELSE
              LET session == [startPos |-> L.sessionStartPos,
                              startTimeMs |-> L.sessionStartTime,
                              endTimeMs |-> t,
                              durationMs |-> durationMs,
                              dayOfWeek |-> GetDay(L.sessionStartTime),
                              startHour |-> GetHours(L.sessionStartTime),
                              positionsPerHour |-> positionsPerHour]
                  pushed == Append(L.sessions, session)
                  kept == IF Len(pushed) > MAX_SESSIONS THEN Tail(pushed) ELSE pushed
              IN [Save([L EXCEPT !.sessions = kept], saveOk)
                    EXCEPT !.sessionStartPos = Null, !.sessionStartTime = Null,
                           !.activeSamples = <<>>]

\* "no rate": the null that _getLiveRate returns
NoRate == [num |-> Null, den |-> 1]

\* _getLiveRate() that is content with 4 samples
GetLiveRate_FourSamples(L) ==
  IF Len(L.activeSamples) < 4 THEN NoRate
  ELSE
    LET oldest == L.activeSamples[1]
        newest == L.activeSamples[Len(L.activeSamples)]
        elapsedMs == newest.time - oldest.time
        posDropped == oldest.pos - newest.pos
    IN IF elapsedMs * 60 < MS_PER_HOUR THEN NoRate
       ELSE IF posDropped <= 0 THEN NoRate
       ELSE Frac(posDropped * MS_PER_HOUR, elapsedMs)

\* _getLiveRate(): positions per hour, as a fraction
GetLiveRate(L) ==
  IF Len(L.activeSamples) < 5 THEN NoRate
  ELSE
    LET oldest == L.activeSamples[1]
        newest == L.activeSamples[Len(L.activeSamples)]
        elapsedMs == newest.time - oldest.time
        posDropped == oldest.pos - newest.pos
    IN IF elapsedMs * 60 < MS_PER_HOUR THEN NoRate
       ELSE IF posDropped <= 0 THEN NoRate
       ELSE Frac(posDropped * MS_PER_HOUR, elapsedMs)

\* Math.exp(-0.5 * Math.pow(hourDiff / 4, 2)), in hundredths
TimeWeight(hourDiff) ==
  CASE hourDiff = 0 -> 100 [] hourDiff = 1 -> 97 [] hourDiff = 2 -> 88
    [] hourDiff = 3 -> 75  [] hourDiff = 4 -> 61 [] hourDiff = 5 -> 46
    [] hourDiff = 6 -> 32  [] hourDiff = 7 -> 22 [] hourDiff = 8 -> 14
    [] hourDiff = 9 -> 8   [] hourDiff = 10 -> 4 [] hourDiff = 11 -> 2
    [] OTHER -> 1

\* the day-type weight 1.0 or 0.35, in twentieths
DayWeight(sWeekend, isWeekend) == IF sWeekend = isWeekend THEN 20 ELSE 7

\* "no data": the null that _getHistoricalRate returns
NoHistory == [rate |-> NoRate, effectiveSessions |-> 0]

\* the weight w of session i at time t, times 100 * 20 * n
SessionWeight(sessions, i, t) ==
  LET n == Len(sessions)
      s == sessions[i]
      \* index of s in [...sessions].sort((a, b) => b.startTimeMs - a.startTimeMs)
      rank == Cardinality({j \in 1..n :
                 \/ sessions[j].startTimeMs > s.startTimeMs
                 \/ sessions[j].startTimeMs = s.startTimeMs /\ j < i})
      rawDiff == Abs(s.startHour - GetHours(t))
      hourDiff == Min(rawDiff, 24 - rawDiff)
      sWeekend == s.dayOfWeek \in {0, 6}
      isWeekend == GetDay(t) \in {0, 6}
  IN TimeWeight(hourDiff) * DayWeight(sWeekend, isWeekend) * (n - rank)

RECURSIVE SumTo(_, _)
\* f[1] + ... + f[k]
SumTo(f, k) == IF k = 0 THEN 0 ELSE f[k] + SumTo(f, k - 1)

\* _getHistoricalRate(now) that returns the sum of the weights as the effective
\* sample size
GetHistoricalRate_WeightSumAsCount(L, t) ==
  LET n == Len(L.sessions)
      w == [i \in 1..n |-> SessionWeight(L.sessions, i, t)]
      weightedSum == SumTo([i \in 1..n |-> L.sessions[i].positionsPerHour * w[i]], n)
      totalWeight == SumTo(w, n)
  IN IF n = 0 THEN NoHistory
     ELSE IF totalWeight = 0 THEN NoHistory
     ELSE [rate |-> Frac(weightedSum, totalWeight), effectiveSessions |-> totalWeight]

\* _getHistoricalRate(now): the weighted rate as a fraction, and the Kish
\* effective sample size
GetHistoricalRate(L, t) ==
  LET n == Len(L.sessions)
      w == [i \in 1..n |-> SessionWeight(L.sessions, i, t)]
      weightedSum == SumTo([i \in 1..n |-> L.sessions[i].positionsPerHour * w[i]], n)
      totalWeight == SumTo(w, n)
      effectiveCountDenom == SumTo([i \in 1..n |-> w[i] * w[i]], n)
  IN IF n = 0 THEN NoHistory
     ELSE IF totalWeight = 0 THEN NoHistory
     ELSE [rate |-> Frac(weightedSum, totalWeight),
           effectiveSessions |->
             IF effectiveCountDenom > 0
               THEN MathRound(totalWeight * totalWeight, effectiveCountDenom)
               ELSE 0]

RECURSIVE WeightSum(_)
WeightSum(candidates) ==
  IF candidates = <<>> THEN 0
  ELSE Head(candidates).weight + WeightSum(Tail(candidates))

RECURSIVE Blend(_, _)
\* candidates.reduce((s, c) => s + c.minutes * (c.weight / totalWeight), 0)
Blend(candidates, totalWeight) ==
  IF candidates = <<>> THEN Frac(0, 1)
  ELSE FracAdd(FracMul(Head(candidates).minutes, Frac(Head(candidates).weight, totalWeight)),
               Blend(Tail(candidates), totalWeight))

\* estimateMinutes() that forgets to normalize the weights
EstimateMinutes_NoNormalize(L, currentPos, baseMinutes, t) ==
  LET historical == GetHistoricalRate(L, t)
      liveRate == GetLiveRate(L)
      base == <<[minutes |-> baseMinutes, weight |-> 50]>>
      hist == IF historical # NoHistory /\ historical.rate.num > 0
                THEN <<[minutes |-> FracMul(Frac(currentPos * 60, 1), FracInv(historical.rate)),
                        weight |-> Min(50, historical.effectiveSessions * 4)]>>
                ELSE <<>>
      live == IF liveRate # NoRate /\ liveRate.num > 0
                THEN <<[minutes |-> FracMul(Frac(currentPos * 60, 1), FracInv(liveRate)),
                        weight |-> Min(40, Len(L.activeSamples) * 2)]>>
                ELSE <<>>
      candidates == base \o hist \o live
      blended == Blend(candidates, 100)
  IN Max(1, MathRound(blended.num, blended.den))

\* estimateMinutes() without the floor of 1 minute
EstimateMinutes_NoFloor(L, currentPos, baseMinutes, t) ==
  LET historical == GetHistoricalRate(L, t)
      liveRate == GetLiveRate(L)
      base == <<[minutes |-> baseMinutes, weight |-> 50]>>
      hist == IF historical # NoHistory /\ historical.rate.num > 0
                THEN <<[minutes |-> FracMul(Frac(currentPos * 60, 1), FracInv(historical.rate)),
                        weight |-> Min(50, historical.effectiveSessions * 4)]>>
                ELSE <<>>
      live == IF liveRate # NoRate /\ liveRate.num > 0
                THEN <<[minutes |-> FracMul(Frac(currentPos * 60, 1), FracInv(liveRate)),
                        weight |-> Min(40, Len(L.activeSamples) * 2)]>>
                ELSE <<>>
      candidates == base \o hist \o live
      totalWeight == WeightSum(candidates)
      blended == Blend(candidates, totalWeight)
  IN MathRound(blended.num, blended.den)

\* estimateMinutes() whose live weight grows by 0.2 per sample instead of 0.02
EstimateMinutes_LiveWeightTenfold(L, currentPos, baseMinutes, t) ==
  LET historical == GetHistoricalRate(L, t)
      liveRate == GetLiveRate(L)
      base == <<[minutes |-> baseMinutes, weight |-> 50]>>
      hist == IF historical # NoHistory /\ historical.rate.num > 0
                THEN <<[minutes |-> FracMul(Frac(currentPos * 60, 1), FracInv(historical.rate)),
                        weight |-> Min(50, historical.effectiveSessions * 4)]>>
                ELSE <<>>
      live == IF liveRate # NoRate /\ liveRate.num > 0
                THEN <<[minutes |-> FracMul(Frac(currentPos * 60, 1), FracInv(liveRate)),
                        weight |-> Min(40, Len(L.activeSamples) * 20)]>>
                ELSE <<>>
      candidates == base \o hist \o live
      totalWeight == WeightSum(candidates)
      blended == Blend(candidates, totalWeight)
  IN Max(1, MathRound(blended.num, blended.den))

\* estimateMinutes() whose live candidate is in seconds (* 3600) instead of minutes
EstimateMinutes_LiveInSeconds(L, currentPos, baseMinutes, t) ==
  LET historical == GetHistoricalRate(L, t)
      liveRate == GetLiveRate(L)
      base == <<[minutes |-> baseMinutes, weight |-> 50]>>
      hist == IF historical # NoHistory /\ historical.rate.num > 0
                THEN <<[minutes |-> FracMul(Frac(currentPos * 60, 1), FracInv(historical.rate)),
                        weight |-> Min(50, historical.effectiveSessions * 4)]>>
                ELSE <<>>
      live == IF liveRate # NoRate /\ liveRate.num > 0
                THEN <<[minutes |-> FracMul(Frac(currentPos * 3600, 1), FracInv(liveRate)),
                        weight |-> Min(40, Len(L.activeSamples) * 2)]>>
                ELSE <<>>
      candidates == base \o hist \o live
      totalWeight == WeightSum(candidates)
      blended == Blend(candidates, totalWeight)
  IN Max(1, MathRound(blended.num, blended.den))

\* estimateMinutes(currentPos, baseMinutes, now); baseMinutes is a fraction,
\* the weights are in hundredths
EstimateMinutes(L, currentPos, baseMinutes, t) ==
  LET historical == GetHistoricalRate(L, t)
      liveRate == GetLiveRate(L)
      base == <<[minutes |-> baseMinutes, weight |-> 50]>>
      hist == IF historical # NoHistory /\ historical.rate.num > 0
                THEN <<[minutes |-> FracMul(Frac(currentPos * 60, 1), FracInv(historical.rate)),
                        weight |-> Min(50, historical.effectiveSessions * 4)]>>
                ELSE <<>>
      live == IF liveRate # NoRate /\ liveRate.num > 0
                THEN <<[minutes |-> FracMul(Frac(currentPos * 60, 1), FracInv(liveRate)),
                        weight |-> Min(40, Len(L.activeSamples) * 2)]>>
                ELSE <<>>
      candidates == base \o hist \o live
      totalWeight == WeightSum(candidates)
      blended == Blend(candidates, totalWeight)
  IN Max(1, MathRound(blended.num, blended.den))

\* no estimateMinutes call yet
NoEstimate == [pos |-> Null, base |-> [num |-> 0, den |-> 1], result |-> Null]

(***************************************************************************)
(* ProxyManager helpers.                                                   *)
(***************************************************************************)
\* _updateState(changes) is written [m EXCEPT !.state.f = v] at each call.

\* _log(message): one more entry in this._logs
Log(m) == [m EXCEPT !.logged = @ + 1]

\* AntiAFK.start(): no-op when already running or when options.enabled is false
AfkStart(a) == IF a = "stopped" /\ cfgAntiAfkEnabled THEN "running" ELSE a

\* AntiAFK.stop()
AfkStop(a) == IF a = "running" THEN "stopped" ELSE a

\* socket.end() on a player socket with a registered 'end' listener: the
\* listener runs later, on the socket's 'end' event
EndPlayer(m) ==
  [m EXCEPT !.playerLive = FALSE, !.stalePlayerEnds = @ + 1]

\* _cleanup()
Cleanup(m) ==
  LET m1 == [m EXCEPT !.finishedQueue = FALSE, !.notificationSent = FALSE,
                      !.antiAfk = "null"]
      m2 == [m1 EXCEPT !.reconnectTimer = "null"]
      m3 == IF m2.client
              THEN [m2 EXCEPT !.client = FALSE, !.sock = "none",
                              !.staleEnds = IF m2.sock \in {"open", "errored"}
                                              THEN @ + 1 ELSE @]
              ELSE m2
      m4 == IF m3.proxyClient
              THEN [EndPlayer(m3) EXCEPT !.proxyClient = FALSE]
              ELSE m3
      m5 == IF m4.server
              THEN [(IF m4.playerLive THEN EndPlayer(m4) ELSE m4) EXCEPT !.server = FALSE]
              ELSE m4
  IN [m5 EXCEPT !.conn = FALSE]

\* _tryStartAntiAfk()
TryStartAntiAfk(m) ==
  IF ~cfgAntiAfkEnabled /\ ~m.antiAfkPending THEN m
  ELSE IF m.proxyClient THEN m
  ELSE IF ~m.finishedQueue THEN m
  ELSE IF m.conn
    THEN [m EXCEPT !.orphanAfk = IF m.antiAfk = "running" THEN @ + 1 ELSE @,
                   !.antiAfk = AfkStart("stopped"),
                   !.antiAfkPending = TRUE,
                   !.state.antiAfkActive = TRUE]
    ELSE m

\* _reconnect(): the ping it sends is answered later (PingReply)
Reconnect(m) ==
  IF m.stoppedByPlayer THEN [m EXCEPT !.stoppedByPlayer = FALSE]
  ELSE [Log(m) EXCEPT !.state.doing = "reconnecting", !.pings = @ + 1]

\* start() without the 'Already in queue' guard
StartBody_NoGuard(m, connOk) ==
  LET m1 == Cleanup(Log([m EXCEPT !.stoppedByPlayer = FALSE]))
      m2 == [Log(m1) EXCEPT !.state.doing = "auth", !.state.isInQueue = TRUE]
  IN IF ~connOk
       THEN [Log(m2) EXCEPT !.state.doing = "idle", !.state.isInQueue = FALSE]
       ELSE [Log(m2) EXCEPT !.conn = TRUE, !.client = TRUE, !.sock = "open",
                            !.state.doing = "queue",
                            !.queueHandlingSetup = TRUE,
                            !.lastQueuePlace = None, !.positionError = FALSE,
                            !.notified = 0,
                            !.server = TRUE]

\* start(); connOk: new mcproxy.Conn(options) did not throw
StartBody(m, connOk) ==
  IF m.state.isInQueue THEN Log(m)
  ELSE
    LET m1 == Cleanup(Log([m EXCEPT !.stoppedByPlayer = FALSE]))
        m2 == [Log(m1) EXCEPT !.state.doing = "auth", !.state.isInQueue = TRUE]
    IN IF ~connOk
         THEN [Log(m2) EXCEPT !.state.doing = "idle", !.state.isInQueue = FALSE]
         ELSE \* _setupQueueHandling, then _setupLocalServer
              [Log(m2) EXCEPT !.conn = TRUE, !.client = TRUE, !.sock = "open",
                              !.state.doing = "queue",
                              !.queueHandlingSetup = TRUE,
                              !.lastQueuePlace = None, !.positionError = FALSE,
                              !.notified = 0,
                              !.server = TRUE]

\* stop()
StopBody(m) ==
  LET m1 == Cleanup([m EXCEPT !.stoppedByPlayer = TRUE, !.antiAfkPending = FALSE])
  IN [Log([m1 EXCEPT !.state.isInQueue = FALSE, !.state.queuePlace = None,
                     !.state.doing = "idle", !.state.connected = FALSE])
        EXCEPT !.effects = @ \cup {"stopped"}]

\* the 'error' listener start() attaches to the client
StartErrorListener(m) ==
  IF ~m.queueHandlingSetup
    THEN [Cleanup(Log(m)) EXCEPT !.state.doing = "idle", !.state.isInQueue = FALSE]
    ELSE m

\* onDisconnect(reason) of _setupQueueHandling
OnDisconnect(m) ==
  IF ~m.conn THEN m
  ELSE IF m.reconnectTimer # "null" THEN m
  ELSE
    LET m1 == Log(m)
        m2 == IF m1.proxyClient
                THEN [EndPlayer(m1) EXCEPT !.proxyClient = FALSE]
                ELSE m1
        m3 == [m2 EXCEPT !.antiAfk = "null"]
        m4 == [m3 EXCEPT !.state.isInQueue = FALSE, !.state.connected = FALSE,
                         !.state.antiAfkActive = FALSE]
    IN IF ~m4.stoppedByPlayer /\ cfgReconnectOnError
         THEN [Log(m4) EXCEPT !.state.doing = "reconnecting",
                              !.reconnectTimer = "pending"]
         ELSE m4

\* _handleQueueFinished(); saveOk: the learner's _save did not throw
HandleQueueFinished_WaitsForZero(m, saveOk) ==
  IF m.lastQueuePlace > 0
    THEN Log(m)
    ELSE [Log(m) EXCEPT !.finishedQueue = TRUE, !.state.queuePlace = DONE,
                        !.state.doing = "connected", !.state.connected = TRUE,
                        !.effects = @ \cup {"queueFinished"}]

HandleQueueFinished(m, saveOk) ==
  LET m1 == [Log(m) EXCEPT !.etaLearner = RecordCompletedSession(@, now, saveOk),
                           !.called = "recordCompletedSession"]
  IN IF m1.state.restartQueue /\ ~m1.proxyClient
       THEN Reconnect(Cleanup(Log(m1)))
       ELSE [TryStartAntiAfk(
               [m1 EXCEPT !.finishedQueue = TRUE, !.state.queuePlace = DONE,
                          !.state.doing = "connected", !.state.connected = TRUE])
               EXCEPT !.effects = @ \cup {"queueFinished"}]

\* the 'end' listener the login handler attaches to a player socket
(***************************************************************************)
(* The 'playerlist_header' case of the upstream packet listener.  A packet *)
(* either carries "Position in queue: <n>" (outcome "position"), carries   *)
(* no such line (outcome "none"), or cannot be read (outcome "throws").    *)
(* baseMinutes is what _getWaitTime returns for the reading.               *)
(***************************************************************************)
\* first reading of the connection: the learner's session begins
TrackQueueStart(m, positionInQueue) ==
  IF m.lastQueuePlace = None
    THEN Log([m EXCEPT !.etaLearner = BeginSession(@, positionInQueue, now),
                       !.called = "beginSession"])
    ELSE m

DesktopNotification_NoLatch(m, positionInQueue) ==
  IF cfgNotify /\ positionInQueue <= NOTIFY_THRESHOLD /\ ~m.notificationSent
    THEN [m EXCEPT !.notified = @ + 1,
                   !.effects = @ \cup {"notification"}]
    ELSE m

\* desktop notification, once the position is at or under the threshold
DesktopNotification(m, positionInQueue) ==
  IF cfgNotify /\ positionInQueue <= NOTIFY_THRESHOLD /\ ~m.notificationSent
    THEN [m EXCEPT !.notificationSent = TRUE,
                   !.notified = @ + 1,
                   !.effects = @ \cup {"notification"}]
    ELSE m

\* the position changed: new estimate, chart point, state, log line, event
PublishPosition(m, positionInQueue, baseMinutes) ==
  LET m1 == [m EXCEPT !.estimate = [pos |-> positionInQueue, base |-> baseMinutes,
                                    result |-> EstimateMinutes(m.etaLearner,
                                                 positionInQueue, baseMinutes, now)],
                      !.called = "estimateMinutes",
                      !.state.queuePlace = positionInQueue,
                      !.effects = @ \cup {"chartPoint", "queueUpdate"}]
  IN DesktopNotification(Log(m1), positionInQueue)

\* a packet whose header gave a position
OnPositionReading_NoDedupe(m, positionInQueue, baseMinutes) ==
  LET m1 == TrackQueueStart(m, positionInQueue)
      m2 == [m1 EXCEPT !.etaLearner = RecordSample(@, positionInQueue, now),
                       !.called = "recordSample"]
  IN [PublishPosition(m2, positionInQueue, baseMinutes)
        EXCEPT !.lastQueuePlace = positionInQueue]

OnPositionReading(m, positionInQueue, baseMinutes) ==
  LET m1 == TrackQueueStart(m, positionInQueue)
      m2 == [m1 EXCEPT !.etaLearner = RecordSample(@, positionInQueue, now),
                       !.called = "recordSample"]
      m3 == IF m2.lastQueuePlace # positionInQueue
              THEN PublishPosition(m2, positionInQueue, baseMinutes)
              ELSE m2
  IN [m3 EXCEPT !.lastQueuePlace = positionInQueue]

OnPlayerlistHeader_ZeroFinishes(m, outcome, positionInQueue, baseMinutes) ==
  IF m.finishedQueue THEN m
  ELSE IF outcome = "throws"
    THEN IF ~m.positionError THEN [Log(m) EXCEPT !.positionError = TRUE] ELSE m
  ELSE IF outcome = "none" THEN m
  ELSE IF positionInQueue = 0
    THEN HandleQueueFinished(OnPositionReading(m, positionInQueue, baseMinutes), TRUE)
    ELSE OnPositionReading(m, positionInQueue, baseMinutes)

\* the 'playerlist_header' branch without the positionError latch
OnPlayerlistHeader_LogsEveryFailure(m, outcome, positionInQueue, baseMinutes) ==
  IF m.finishedQueue THEN m
  ELSE IF outcome = "throws" THEN [Log(m) EXCEPT !.positionError = TRUE]
  ELSE IF outcome = "none" THEN m
  ELSE OnPositionReading(m, positionInQueue, baseMinutes)

OnPlayerlistHeader(m, outcome, positionInQueue, baseMinutes) ==
  IF m.finishedQueue THEN m
  ELSE IF outcome = "throws"
    THEN IF ~m.positionError THEN [Log(m) EXCEPT !.positionError = TRUE] ELSE m
  ELSE IF outcome = "none" THEN m
  ELSE OnPositionReading(m, positionInQueue, baseMinutes)

OnPlayerEnd(m) ==
  TryStartAntiAfk([Log(m) EXCEPT !.proxyClient = FALSE, !.state.connected = FALSE])

\* the server's 'login' listener; outcome: "rejected" by the whitelist check,
\* "linked", or "linkFailed" (sendPackets/link threw)
OnLogin(m, outcome) ==
  LET m1 == Log(m)
  IN IF outcome = "rejected" THEN Log(m1)
     ELSE
       LET m2 == IF m1.antiAfk # "null"
                   THEN [m1 EXCEPT !.antiAfk = AfkStop(@), !.state.antiAfkActive = FALSE]
                   ELSE m1
       IN IF outcome = "linked"
            THEN [m2 EXCEPT !.proxyClient = TRUE, !.playerLive = TRUE,
                            !.state.connected = TRUE]
            ELSE [Log(m2) EXCEPT !.stalePlayerEnds = @ + 1]

\* toggleRestart()
ToggleRestartBody(m) == Log([m EXCEPT !.state.restartQueue = ~@])

\* toggleAntiAfk()
ToggleAntiAfkBody(m) ==
  IF m.antiAfk = "running"
    THEN [m EXCEPT !.antiAfk = AfkStop(@), !.antiAfkPending = FALSE,
                   !.state.antiAfkActive = FALSE]
  ELSE IF m.antiAfk # "null"
    THEN [m EXCEPT !.antiAfk = AfkStart(@), !.antiAfkPending = TRUE,
                   !.state.antiAfkActive = TRUE]
  ELSE Log([m EXCEPT !.antiAfkPending = ~@, !.state.antiAfkActive = ~m.antiAfkPending])

(***************************************************************************)
(* Initial state: the ProxyManager constructor.                            *)
(***************************************************************************)
(***************************************************************************)
(* The programs and classes outside the proxy, as they are when loaded.    *)
(***************************************************************************)
\* the queue learner's module state; live, finished and warned are the
\* connections whose socket can still deliver events, whose closure has
\* finishedQueue set and whose closure has positionError set
NewCollector ==
  [client |-> 0, lastPosition |-> Null, sessionActive |-> FALSE, stopping |-> FALSE,
   timers |-> 0, sessionCount |-> 0, live |-> {}, finished |-> {}, warned |-> {},
   exited |-> FALSE, learner |-> NewLearner(<<>>)]

\* src/queuelearner.js: its module state; live are the connections whose
\* socket can still deliver events, timers the pending reconnect timers,
\* recorded the arguments of its learner.recordSession calls
NewQueueLearner ==
  [client |-> 0, statusTimer |-> FALSE, sessionEntryPos |-> Null,
   sessionEntryMs |-> Null, currentPos |-> Null, timers |-> 0, created |-> 0,
   live |-> {}, recorded |-> <<>>, exited |-> FALSE]

\* an AntiAFK with walk, look and swing enabled, and its bot: the controls held
\* active, the position and heading of the entity, the follow-up timers of
\* the actions (which this.timers does not hold) and what is left of the
\* distance the entity can cover before the current walk is released
NewAntiAFK ==
  [running |-> FALSE, timers |-> {}, origin |-> <<>>, pos |-> <<0, 0>>,
   heading |-> <<0, 1>>, controls |-> {}, followUps |-> {}, stride |-> 0,
   botOpen |-> TRUE, last |-> "new"]

(***************************************************************************)
(* _extractChatText (src/src/proxy.js; extractChatText of                  *)
(* src/unnamed/part_001 is the same function).  A JavaScript value is a    *)
(* record tagged with its kind; an object carries the six properties the   *)
(* extractor reads, Undefined where the object has no such key.  What a    *)
(* call gives back is the text it returned, or the fact that it threw.     *)
(***************************************************************************)
Undefined == [k |-> "undefined"]
JNull == [k |-> "null"]
JStr(s) == [k |-> "string", s |-> s]
JNum(n) == [k |-> "number", n |-> n]
JBool(b) == [k |-> "boolean", b |-> b]
JArr(items) == [k |-> "array", items |-> items]
JObj(type, value, text, translate, extra, with) ==
  [k |-> "object", type |-> type, value |-> value, text |-> text,
   translate |-> translate, extra |-> extra, with |-> with]

\* a chat component without NBT tags
Node(text, translate, extra, with) ==
  JObj(Undefined, Undefined, text, translate, extra, with)

\* a value in a boolean context
Truthy(v) ==
  CASE v.k \in {"undefined", "null"} -> FALSE
    [] v.k = "string" -> v.s # ""
    [] v.k = "number" -> v.n # 0
    [] v.k = "boolean" -> v.b
    [] OTHER -> TRUE

IsString(v, s) == v.k = "string" /\ v.s = s

Returned(s) == [threw |-> FALSE, text |-> s]
Threw == [threw |-> TRUE, text |-> ""]

\* result += ...: an exception in either operand leaves the function
Concat(r1, r2) ==
  IF r1.threw \/ r2.threw THEN Threw ELSE Returned(r1.text \o r2.text)

ABNode == Node(JStr("A"), Undefined, JArr(<<Node(JStr("B"), Undefined, Undefined, Undefined)>>), Undefined)

\* JSON.parse on the strings the model hands in; Undefined stands for the
\* SyntaxError it throws on text that is not JSON
JSONParse(s) ==
  CASE s = "\"hello\"" -> JStr("hello")
    [] s = "\"\\\"hello\\\"\"" -> JStr("\"hello\"")
    [] s = "15" -> JNum(15)
    [] s = "null" -> JNull
    [] s = "true" -> JBool(TRUE)
    [] s = "[]" -> JArr(<<>>)
    [] s = "{}" -> Node(Undefined, Undefined, Undefined, Undefined)
    [] s = "{\"text\":\"A\",\"extra\":[{\"text\":\"B\"}]}" -> ABNode
    [] OTHER -> Undefined

\* String(component) of a number or boolean
String(v) == IF v.k = "number" THEN ToString(v.n) ELSE IF v.b THEN "true" ELSE "false"

\* try { ... } catch { return component; }
Catch_Rethrow(component, r) == r

Catch(component, r) == IF r.threw THEN Returned(component) ELSE r

\* the standard chat component: own is the text of component.text,
\* fallback of component.translate, children of extra, arguments of with
FlattenNode_TranslateAlways(c, own, fallback, children, arguments) ==
  Concat(Concat(Concat(IF c.text.k # "undefined" THEN own ELSE Returned(""),
                       IF Truthy(c.translate) THEN fallback ELSE Returned("")),
                IF Truthy(c.extra) THEN children ELSE Returned("")),
         IF Truthy(c.with) THEN arguments ELSE Returned(""))

FlattenNode(c, own, fallback, children, arguments) ==
  Concat(Concat(Concat(IF c.text.k # "undefined" THEN own ELSE Returned(""),
                       IF Truthy(c.translate) /\ c.text.k = "undefined"
                         THEN fallback ELSE Returned("")),
                IF Truthy(c.extra) THEN children ELSE Returned("")),
         IF Truthy(c.with) THEN arguments ELSE Returned(""))

RECURSIVE ExtractChatText(_), ExtractEach(_)

\* items.map(item => this._extractChatText(item)).join(''), and the for
\* loops over extra and with
ExtractEach(items) ==
  IF items = <<>> THEN Returned("")
  ELSE Concat(ExtractChatText(Head(items)), ExtractEach(Tail(items)))

\* extra and with: an array's children one by one, anything else as one component
ExtractChildren(v) ==
  IF v.k = "array" THEN ExtractEach(v.items) ELSE ExtractChatText(v)

ExtractChatText(component) ==
  CASE component.k \in {"undefined", "null"} -> Returned("")
    [] component.k = "string" ->
         LET parsed == JSONParse(component.s)
         IN Catch(component.s,
                  IF parsed.k = "undefined" THEN Threw ELSE ExtractChatText(parsed))
    [] component.k \in {"number", "boolean"} -> Returned(String(component))
    [] component.k = "array" -> Returned("")
    [] OTHER ->
         IF IsString(component.type, "compound") /\ Truthy(component.value)
           THEN ExtractChatText(component.value)
         ELSE IF IsString(component.type, "string") /\ component.value.k = "string"
           THEN Returned(component.value.s)
         ELSE IF IsString(component.type, "list") /\ Truthy(component.value)
           THEN LET inner == component.value
                IN IF inner.k = "array" THEN ExtractEach(inner.items)
                   ELSE IF inner.k = "object" /\ inner.value.k = "array"
                     THEN ExtractEach(inner.value.items)
                   ELSE ExtractChatText(inner)
         ELSE FlattenNode(component,
                          ExtractChatText(component.text),
                          ExtractChatText(component.translate),
                          ExtractChildren(component.extra),
                          ExtractChildren(component.with))

NoResult == [threw |-> FALSE, text |-> "", is |-> FALSE]

\* extractChatText of src/unnamed/part_001: its standard chat component,
\* with the with children taken before the extra children
CollectorFlattenNode_WithFirst(c, own, fallback, children, arguments) ==
  Concat(Concat(Concat(IF c.text.k # "undefined" THEN own ELSE Returned(""),
                       IF Truthy(c.translate) /\ c.text.k = "undefined"
                         THEN fallback ELSE Returned("")),
                IF Truthy(c.with) THEN arguments ELSE Returned("")),
         IF Truthy(c.extra) THEN children ELSE Returned(""))

\* extractChatText of src/unnamed/part_001: its standard chat component
CollectorFlattenNode(c, own, fallback, children, arguments) ==
  LET r1 == IF c.text.k # "undefined" THEN own ELSE Returned("")
      r2 == IF Truthy(c.translate) /\ ~(c.text.k # "undefined")
              THEN Concat(r1, fallback) ELSE r1
      r3 == IF Truthy(c.extra) THEN Concat(r2, children) ELSE r2
  IN IF Truthy(c.with) THEN Concat(r3, arguments) ELSE r3

RECURSIVE CollectorExtractChatText(_), CollectorExtractEach(_)

CollectorExtractEach(items) ==
  IF items = <<>> THEN Returned("")
  ELSE Concat(CollectorExtractChatText(Head(items)), CollectorExtractEach(Tail(items)))

\* extractChatText(component) of src/unnamed/part_001
CollectorExtractChatText(component) ==
  IF component.k \in {"undefined", "null"} THEN Returned("")
  ELSE IF component.k = "string"
    THEN LET parsed == JSONParse(component.s)
             r == IF parsed.k = "undefined" THEN Threw
                  ELSE CollectorExtractChatText(parsed)
         IN IF r.threw THEN Returned(component.s) ELSE r
  ELSE IF component.k # "object" /\ component.k # "array"
    THEN Returned(String(component))
  ELSE IF component.k = "array" THEN Returned("")
  ELSE IF IsString(component.type, "compound") /\ Truthy(component.value)
    THEN CollectorExtractChatText(component.value)
  ELSE IF IsString(component.type, "string") /\ component.value.k = "string"
    THEN Returned(component.value.s)
  ELSE IF IsString(component.type, "list") /\ Truthy(component.value)
    THEN LET inner == component.value
         IN IF inner.k = "array" THEN CollectorExtractEach(inner.items)
            ELSE IF inner.k = "object" /\ inner.value.k = "array"
              THEN CollectorExtractEach(inner.value.items)
            ELSE CollectorExtractChatText(inner)
  ELSE LET Children(v) == IF v.k = "array" THEN CollectorExtractEach(v.items)
                          ELSE CollectorExtractChatText(v)
       IN CollectorFlattenNode(component,
                               CollectorExtractChatText(component.text),
                               CollectorExtractChatText(component.translate),
                               Children(component.extra),
                               Children(component.with))

NoChat == [component |-> Undefined, result |-> NoResult, collected |-> NoResult]


StandaloneInit ==
  /\ collector = NewCollector
  /\ ql = NewQueueLearner
  /\ afk = NewAntiAFK
  /\ chat = NoChat

ProxyInit ==
  /\ cfgReconnectOnError \in BOOLEAN
  /\ cfgAntiAfkEnabled \in BOOLEAN
  /\ conn = FALSE
  /\ client = FALSE
  /\ server = FALSE
  /\ proxyClient = FALSE
  /\ antiAfk = "null"
  /\ finishedQueue = FALSE
  /\ stoppedByPlayer = FALSE
  /\ notificationSent = FALSE
  /\ reconnectTimer = "null"
  /\ antiAfkPending = FALSE
  /\ queueHandlingSetup = FALSE
  /\ \E rq \in BOOLEAN :
       state = [isInQueue |-> FALSE, queuePlace |-> None, restartQueue |-> rq,
                doing |-> "idle", connected |-> FALSE, antiAfkActive |-> FALSE]
  /\ sock = "none"
  /\ staleEnds = 0
  /\ playerLive = FALSE
  /\ stalePlayerEnds = 0
  /\ orphanAfk = 0
  /\ orphanTimers = 0
  /\ pings = 0
  /\ logged = 0
  /\ operatorStopped = FALSE
  /\ cfgNotify \in BOOLEAN
  /\ lastQueuePlace = None
  /\ positionError = FALSE
  /\ effects = {}
  /\ notified = 0

\* the lifecycle starts with no data file: the learner loads an empty history
Init ==
  /\ ProxyInit
  /\ StandaloneInit
  /\ cfgNotify
  /\ etaLearner = NewLearner(<<>>)
  /\ now = StartClock
  /\ estimate = NoEstimate
  /\ called = "none"

(***************************************************************************)
(* Actions: operator commands.                                             *)
(***************************************************************************)
Start ==
  /\ \E connOk \in BOOLEAN : Commit(StartBody(This, connOk))
  /\ operatorStopped' = FALSE

Stop ==
  /\ Commit(StopBody(This))
  /\ operatorStopped' = TRUE

ToggleRestart ==
  /\ Commit(ToggleRestartBody(This))
  /\ UNCHANGED operatorStopped

ToggleAntiAfk ==
  /\ Commit(ToggleAntiAfkBody(This))
  /\ UNCHANGED operatorStopped

(***************************************************************************)
(* Actions: events of the upstream client.                                 *)
(***************************************************************************)
\* the live client emits 'error': start()'s listener, then onDisconnect
ClientError ==
  /\ client /\ sock = "open"
  /\ Commit(OnDisconnect(StartErrorListener([This EXCEPT !.sock = "errored"])))
  /\ UNCHANGED operatorStopped

\* the current client emits 'end'
ClientEnd ==
  /\ client /\ sock \in {"open", "errored"}
  /\ Commit(OnDisconnect([This EXCEPT !.sock = "ended"]))
  /\ UNCHANGED operatorStopped

\* a client that _cleanup ended emits its 'end'
StaleClientEnd ==
  /\ staleEnds > 0
  /\ Commit(OnDisconnect([This EXCEPT !.staleEnds = @ - 1]))
  /\ UNCHANGED operatorStopped

\* a chat packet containing 'Connected to the server'
FinishMarker ==
  /\ client /\ sock = "open"
  /\ ~finishedQueue
  /\ \E saveOk \in BOOLEAN : Commit(HandleQueueFinished(This, saveOk))
  /\ UNCHANGED operatorStopped

\* what the tab header can say, and what the queue-data curve then gives
HeaderOutcomes == {"position", "none", "throws"}
Readings == {0, 15, 500}
QueueBaseMinutes == {Frac(3, 2), Frac(480, 1)}

PositionPacketWith(outcome, positionInQueue, baseMinutes) ==
  /\ client /\ sock = "open"
  /\ Len(etaLearner.activeSamples) < MaxQueueSamples
  /\ Commit(OnPlayerlistHeader(This, outcome, positionInQueue, baseMinutes))
  /\ UNCHANGED operatorStopped

PositionPacket ==
  \E outcome \in HeaderOutcomes, positionInQueue \in Readings,
     baseMinutes \in QueueBaseMinutes :
    PositionPacketWith(outcome, positionInQueue, baseMinutes)

(***************************************************************************)
(* Actions: events of the local server and its player sockets.             *)
(***************************************************************************)
PlayerLogin ==
  /\ server /\ ~playerLive
  /\ \E outcome \in {"rejected", "linked", "linkFailed"} :
       /\ outcome = "rejected" => client
       /\ Commit(OnLogin(This, outcome))
  /\ UNCHANGED operatorStopped

\* the logged-in player leaves
PlayerEnd ==
  /\ playerLive
  /\ Commit(OnPlayerEnd([This EXCEPT !.playerLive = FALSE]))
  /\ UNCHANGED operatorStopped

\* the 'end' event of a player socket the proxy ended
StalePlayerEnd ==
  /\ stalePlayerEnds > 0
  /\ Commit(OnPlayerEnd([This EXCEPT !.stalePlayerEnds = @ - 1]))
  /\ UNCHANGED operatorStopped

(***************************************************************************)
(* Actions: timers and ping callbacks.                                     *)
(***************************************************************************)
\* the timer this.reconnectTimer refers to expires
ReconnectTimerFires ==
  /\ reconnectTimer = "pending"
  /\ Commit(Reconnect([This EXCEPT !.reconnectTimer = "fired"]))
  /\ UNCHANGED operatorStopped

\* a timer whose handle was overwritten expires
OrphanTimerFires ==
  /\ orphanTimers > 0
  /\ Commit(Reconnect([This EXCEPT !.orphanTimers = @ - 1]))
  /\ UNCHANGED operatorStopped

\* the callback of mc.ping in _reconnect
PingCallback(m, err, connOk) ==
  IF m.stoppedByPlayer THEN m
  ELSE IF err
    THEN [Log(m) EXCEPT !.orphanTimers = IF m.reconnectTimer = "pending" THEN @ + 1 ELSE @,
                        !.reconnectTimer = "pending"]
    ELSE StartBody(Log(m), connOk)

PingErr ==
  /\ pings > 0
  /\ Commit(PingCallback([This EXCEPT !.pings = @ - 1], TRUE, FALSE))
  /\ UNCHANGED operatorStopped

\* the ping succeeded; connOk: new mcproxy.Conn(options) in start() did not throw
PingOkWith(connOk) ==
  /\ pings > 0
  /\ Commit(PingCallback([This EXCEPT !.pings = @ - 1], FALSE, connOk))
  /\ UNCHANGED operatorStopped

PingOk == \E connOk \in BOOLEAN : PingOkWith(connOk)

Next ==
  \/ Start
  \/ Stop
  \/ ToggleRestart
  \/ ToggleAntiAfk
  \/ ClientError
  \/ ClientEnd
  \/ StaleClientEnd
  \/ FinishMarker
  \/ PlayerLogin
  \/ PlayerEnd
  \/ StalePlayerEnd
  \/ ReconnectTimerFires
  \/ OrphanTimerFires
  \/ PingErr
  \/ PingOk

Spec == Init /\ [][Next]_vars

(***************************************************************************)
(* The lifecycle with the queue's position readings: the proxy of Spec,    *)
(* whose upstream server also sends tab headers, under either notification *)
(* setting.                                                                *)
(***************************************************************************)
QueueInit ==
  /\ ProxyInit
  /\ StandaloneInit
  /\ cfgReconnectOnError
  /\ cfgAntiAfkEnabled
  /\ etaLearner = NewLearner(<<>>)
  /\ now = StartClock
  /\ estimate = NoEstimate
  /\ called = "none"

QueueNext ==
  \/ Start
  \/ Stop
  \/ ToggleRestart
  \/ ClientEnd
  \/ PositionPacket
  \/ FinishMarker
  \/ PlayerLogin
  \/ ReconnectTimerFires

QueueSpec == QueueInit /\ [][QueueNext]_vars

(***************************************************************************)
(* The ETALearner driven through its public operations (by the proxy, the  *)
(* collector or a test), from a data file left by an earlier run.          *)
(***************************************************************************)
\* a session as recordCompletedSession stored it: 100 positions in 9 minutes
FileSession(i) ==
  [startPos |-> 100, startTimeMs |-> i * 600000, endTimeMs |-> i * 600000 + 540000,
   durationMs |-> 540000, dayOfWeek |-> GetDay(i * 600000),
   startHour |-> GetHours(i * 600000),
   positionsPerHour |-> PositionsPerHour(100, 540000)]

\* a data file holding k sessions, oldest first
HistoryFile(k) == [i \in 1..k |-> FileSession(i)]

\* the data file is shared with the collector and with deployments whose
\* MAX_SESSIONS differs: its length is not bounded by this program's cap
FileLengths == {0, MAX_SESSIONS - 1, MAX_SESSIONS, MAX_SESSIONS + 1}

\* the instants at which the learner is called
Instants == {StartClock, StartClock + 119000, StartClock + 120000, StartClock + 7201000}

\* queue positions passed to beginSession and recordSample
Positions == {0, 1, 500}

ProxyDefaults ==
  /\ ProxyInit
  /\ cfgReconnectOnError
  /\ cfgAntiAfkEnabled
  /\ cfgNotify
  /\ ~state.restartQueue

LearnerInit ==
  /\ ProxyDefaults
  /\ StandaloneInit
  /\ \E k \in FileLengths : etaLearner = NewLearner(HistoryFile(k))
  /\ now = StartClock
  /\ estimate = NoEstimate
  /\ called = "none"

Tick ==
  /\ \E t \in Instants : t > now /\ now' = t
  /\ UNCHANGED <<proxyVars, standaloneVars, etaLearner, estimate, called>>

CallBeginSession ==
  /\ \E p \in Positions : etaLearner' = BeginSession(etaLearner, p, now)
  /\ called' = "beginSession"
  /\ UNCHANGED <<proxyVars, standaloneVars, now, estimate>>

CallRecordSample ==
  /\ Len(etaLearner.activeSamples) < MaxSessionSamples
  /\ \E p \in Positions : etaLearner' = RecordSample(etaLearner, p, now)
  /\ called' = "recordSample"
  /\ UNCHANGED <<proxyVars, standaloneVars, now, estimate>>

CallRecordCompletedSession ==
  /\ \E saveOk \in BOOLEAN : etaLearner' = RecordCompletedSession(etaLearner, now, saveOk)
  /\ called' = "recordCompletedSession"
  /\ UNCHANGED <<proxyVars, standaloneVars, now, estimate>>

LearnerNext ==
  \/ Tick
  \/ CallBeginSession
  \/ CallRecordSample
  \/ CallRecordCompletedSession

LearnerSpec == LearnerInit /\ [][LearnerNext]_vars

(***************************************************************************)
(* The live-sample window around its capacity: a session that has already  *)
(* recorded samples receives further position readings, each at a later    *)
(* instant.                                                                *)
(***************************************************************************)
\* samples already in the window
WindowFill == {0, 1, SAMPLE_WINDOW - 1, SAMPLE_WINDOW}
FullWindowDrops == {0, 10}
FullWindowSteps == {1000, 60000}

WindowInit ==
  /\ ProxyDefaults
  /\ StandaloneInit
  /\ \E n \in WindowFill, stepMs \in FullWindowSteps, drop \in FullWindowDrops :
       etaLearner = [NewLearner(<<>>) EXCEPT
                       !.activeSamples =
                          [i \in 1..n |-> [time |-> StartClock - (n - i) * stepMs,
                                           pos |-> 500 - (i - 1) * drop]],
                       !.sessionStartPos = IF n = 0 THEN Null ELSE 500,
                       !.sessionStartTime =
                          IF n = 0 THEN Null ELSE StartClock - (n - 1) * stepMs]
  /\ now = StartClock
  /\ estimate = NoEstimate
  /\ called = "none"

\* recordSample(pos) for a reading that arrives at a later instant
RecordSampleLater ==
  /\ \E t \in Instants, p \in Positions :
       /\ t > now
       /\ now' = t
       /\ etaLearner' = RecordSample(etaLearner, p, t)
  /\ called' = "recordSample"
  /\ UNCHANGED <<proxyVars, standaloneVars, estimate>>

WindowNext ==
  \/ CallBeginSession
  \/ RecordSampleLater

WindowSpec == WindowInit /\ [][WindowNext]_vars

(***************************************************************************)
(* estimateMinutes as a function of the learner's state and its arguments. *)
(***************************************************************************)
\* a live window of n samples, stepMs apart, the position falling by drop per sample
SampleWindow(n, stepMs, drop) ==
  [i \in 1..n |-> [time |-> StartClock - (n - i) * stepMs, pos |-> 500 - (i - 1) * drop]]

\* a learner holding k stored sessions and a live window
LearnerWith(k, n, stepMs, drop) ==
  [NewLearner(HistoryFile(k)) EXCEPT
     !.activeSamples = SampleWindow(n, stepMs, drop),
     !.sessionStartPos = IF n = 0 THEN Null ELSE 500,
     !.sessionStartTime = IF n = 0 THEN Null ELSE StartClock - (n - 1) * stepMs]

HistorySizes == {0, 1, 3}
WindowSizes == {0, 4, 5, 20}
WindowSteps == {1000, 15000, 180000}
WindowDrops == {0, 20}

\* a session as recordCompletedSession stores it
StoredSession(startMs, startPos, durationMs) ==
  [startPos |-> startPos, startTimeMs |-> startMs, endTimeMs |-> startMs + durationMs,
   durationMs |-> durationMs, dayOfWeek |-> GetDay(startMs), startHour |-> GetHours(startMs),
   positionsPerHour |-> PositionsPerHour(startPos, durationMs)]

\* three slow sessions (1 position per hour) on Sunday mornings
SlowHistory ==
  <<StoredSession(9 * MS_PER_HOUR + 3 * MS_PER_DAY, 1, MS_PER_HOUR),
    StoredSession(10 * MS_PER_HOUR + 3 * MS_PER_DAY, 1, MS_PER_HOUR),
    StoredSession(11 * MS_PER_HOUR + 3 * MS_PER_DAY, 1, MS_PER_HOUR)>>

\* sessions of one rate (100 per hour) at different hours and days, not stored
\* in order of start
MixedHistory ==
  <<StoredSession(2 * MS_PER_DAY + 12 * MS_PER_HOUR, 500, 5 * MS_PER_HOUR),
    StoredSession(20 * MS_PER_HOUR, 100, MS_PER_HOUR),
    StoredSession(3 * MS_PER_DAY + 3 * MS_PER_HOUR, 300, 3 * MS_PER_HOUR),
    StoredSession(MS_PER_DAY + 17 * MS_PER_HOUR, 200, 2 * MS_PER_HOUR)>>

\* two sessions of different rates (400, then 100 per hour) started in the same hour
UnevenHistory ==
  <<StoredSession(2 * MS_PER_DAY + 12 * MS_PER_HOUR, 400, MS_PER_HOUR),
    StoredSession(2 * MS_PER_DAY + 12 * MS_PER_HOUR + 1800000, 100, MS_PER_HOUR)>>

Histories == {HistoryFile(k) : k \in HistorySizes} \cup {SlowHistory, MixedHistory, UnevenHistory}

\* Date.now() at the call: Sunday 12:00, Sunday 17:00, Tuesday 00:00
EstimateClocks == {StartClock, StartClock + 5 * MS_PER_HOUR, StartClock + 36 * MS_PER_HOUR}

\* arguments of estimateMinutes
EstimatePositions == {0, 1, 300, 500}
BaseEstimates == {Frac(-3, 1), Frac(0, 1), Frac(2, 5), Frac(1, 2), Frac(3, 2), Frac(480, 1)}

EstimateInit ==
  /\ ProxyDefaults
  /\ StandaloneInit
  /\ \E h \in Histories, n \in WindowSizes, stepMs \in WindowSteps, drop \in WindowDrops :
       etaLearner = [LearnerWith(0, n, stepMs, drop) EXCEPT !.sessions = h, !.dataFile = h]
  /\ now \in EstimateClocks
  /\ estimate = NoEstimate
  /\ called = "none"

CallEstimateMinutes ==
  /\ \E p \in EstimatePositions, b \in BaseEstimates :
       estimate' = [pos |-> p, base |-> b,
                    result |-> EstimateMinutes(etaLearner, p, b, now)]
  /\ called' = "estimateMinutes"
  /\ UNCHANGED <<proxyVars, standaloneVars, etaLearner, now>>

EstimateNext == CallEstimateMinutes

EstimateSpec == EstimateInit /\ [][EstimateNext]_vars

(***************************************************************************)
(* The queue learner (src/unnamed/part_001): a script that waits in the    *)
(* queue, feeds its own ETALearner and re-queues near the front.  k is the *)
(* module state, c the connection whose listener runs.                     *)
(***************************************************************************)
BudgetElapsed == now - StartClock >= RUN_DURATION

SavePartialSession(k, saveOk) ==
  IF k.sessionActive
    THEN [k EXCEPT !.learner = RecordCompletedSession(@, now, saveOk),
                   !.sessionActive = FALSE]
    ELSE k

\* disconnect(reason): client.end() on the module's client
Disconnect(k) == IF k.client # 0 THEN [k EXCEPT !.client = 0] ELSE k

\* shutdown(): process.exit(0) takes the pending timers and the sockets along
Shutdown(k, saveOk) ==
  [Disconnect(SavePartialSession([k EXCEPT !.stopping = TRUE], saveOk))
     EXCEPT !.exited = TRUE, !.timers = 0, !.live = {}]

ScheduleReconnect(k, saveOk) ==
  IF k.stopping THEN k
  ELSE IF BudgetElapsed THEN Shutdown(k, saveOk)
  ELSE [k EXCEPT !.timers = @ + 1]

ConnectToQueue(k, createOk, saveOk) ==
  IF k.stopping THEN k
  ELSE IF BudgetElapsed THEN Shutdown(k, saveOk)
  ELSE LET k1 == [k EXCEPT !.lastPosition = Null, !.sessionActive = FALSE,
                           !.sessionCount = @ + 1]
       IN IF createOk
            THEN [k1 EXCEPT !.client = k1.sessionCount,
                            !.live = @ \cup {k1.sessionCount}]
            ELSE ScheduleReconnect(k1, saveOk)

CollectorOnPlayerlistHeader_RelogWithoutSave(k, c, outcome, pos, saveOk) ==
  IF c \in k.finished \/ outcome # "position" THEN k
  ELSE
    LET k1 == IF ~k.sessionActive
                THEN [k EXCEPT !.learner = BeginSession(@, pos, now),
                               !.sessionActive = TRUE]
                ELSE k
        k2 == IF pos # k1.lastPosition
                THEN [k1 EXCEPT !.learner = RecordSample(@, pos, now),
                                !.lastPosition = pos]
                ELSE k1
    IN IF pos <= RELOG_THRESHOLD
         THEN ScheduleReconnect(Disconnect([k2 EXCEPT !.sessionActive = FALSE]), saveOk)
         ELSE k2

\* the 'playerlist_header' branch of connection c's packet listener
CollectorOnPlayerlistHeader(k, c, outcome, pos, saveOk) ==
  IF c \in k.finished THEN k
  ELSE IF outcome = "throws" THEN [k EXCEPT !.warned = @ \cup {c}]
  ELSE IF outcome = "none" THEN k
  ELSE
    LET k1 == IF ~k.sessionActive
                THEN [k EXCEPT !.learner = BeginSession(@, pos, now),
                               !.sessionActive = TRUE]
                ELSE k
        k2 == IF pos # k1.lastPosition
                THEN [k1 EXCEPT !.learner = RecordSample(@, pos, now),
                                !.lastPosition = pos]
                ELSE k1
    IN IF pos <= RELOG_THRESHOLD
         THEN ScheduleReconnect(Disconnect(SavePartialSession(k2, saveOk)), saveOk)
         ELSE k2

\* the chat branch of connection c's packet listener, on the finish marker
CollectorOnFinishMarker(k, c, saveOk) ==
  IF c \in k.finished THEN k
  ELSE LET k1 == [k EXCEPT !.finished = @ \cup {c},
                           !.learner = RecordCompletedSession(@, now, saveOk),
                           !.sessionActive = FALSE]
       IN ScheduleReconnect(Disconnect(k1), saveOk)

\* onDisconnect of a connection's 'end' and 'error' listeners
CollectorOnDisconnect(k, saveOk) ==
  IF k.client = 0 THEN k
  ELSE ScheduleReconnect(SavePartialSession([k EXCEPT !.client = 0], saveOk), saveOk)

CollectorInBounds(k) ==
  /\ k.timers <= MaxCollectorTimers
  /\ k.sessionCount <= MaxCollectorSessions
  /\ Len(k.learner.activeSamples) <= MaxQueueSamples

CollectorCommit(k) ==
  /\ ~collector.exited
  /\ CollectorInBounds(k)
  /\ collector' = k
  /\ UNCHANGED <<proxyVars, ql, afk, chat, etaLearner, now, estimate, called>>

\* what the tab header can say to the queue learner
CollectorReadings == {500, RELOG_THRESHOLD}
CollectorInstants == {StartClock + 180000,
                      StartClock + RUN_DURATION - 10000,
                      StartClock + RUN_DURATION + 50000}

\* the call of connectToQueue() that ends the script
CollectorMain ==
  /\ collector.sessionCount = 0
  /\ \E createOk, saveOk \in BOOLEAN :
       CollectorCommit(ConnectToQueue(collector, createOk, saveOk))

CollectorTimerFires ==
  /\ collector.timers > 0
  /\ \E createOk, saveOk \in BOOLEAN :
       CollectorCommit(ConnectToQueue([collector EXCEPT !.timers = @ - 1],
                                      createOk, saveOk))

CollectorPacketWith(c, outcome, pos, saveOk) ==
  /\ c \in collector.live
  /\ CollectorCommit(CollectorOnPlayerlistHeader(collector, c, outcome, pos, saveOk))

CollectorPacket ==
  \E c \in collector.live, outcome \in HeaderOutcomes, pos \in CollectorReadings,
     saveOk \in BOOLEAN :
    CollectorPacketWith(c, outcome, pos, saveOk)

CollectorFinishMarker ==
  \E c \in collector.live, saveOk \in BOOLEAN :
    CollectorCommit(CollectorOnFinishMarker(collector, c, saveOk))

\* a socket's 'end': its last event
CollectorSocketEnd ==
  \E c \in collector.live, saveOk \in BOOLEAN :
    CollectorCommit(CollectorOnDisconnect([collector EXCEPT !.live = @ \ {c}], saveOk))

\* a socket's 'error': its 'end' is still to come
CollectorSocketError ==
  \E c \in collector.live, saveOk \in BOOLEAN :
    CollectorCommit(CollectorOnDisconnect(collector, saveOk))

\* SIGINT or SIGTERM
CollectorSignal ==
  /\ ~collector.exited
  /\ \E saveOk \in BOOLEAN : CollectorCommit(Shutdown(collector, saveOk))

\* time passes once the script has run to its end
CollectorTick ==
  /\ ~collector.exited
  /\ collector.sessionCount > 0
  /\ \E t \in CollectorInstants : t > now /\ now' = t
  /\ UNCHANGED <<proxyVars, standaloneVars, etaLearner, estimate, called>>

CollectorInit ==
  /\ ProxyDefaults
  /\ StandaloneInit
  /\ etaLearner = NewLearner(<<>>)
  /\ now = StartClock
  /\ estimate = NoEstimate
  /\ called = "none"

CollectorNext ==
  \/ CollectorMain
  \/ CollectorTimerFires
  \/ CollectorPacket
  \/ CollectorFinishMarker
  \/ CollectorSocketEnd
  \/ CollectorSocketError
  \/ CollectorSignal
  \/ CollectorTick

CollectorSpec == CollectorInit /\ [][CollectorNext]_vars

(***************************************************************************)
(* The queue learner of src/src/queuelearner.js, which reads the position  *)
(* from chat.  q is the module state.  Its learner.recordSession and       *)
(* learner.save are calls into code that is not in src/; the model keeps   *)
(* the arguments of the calls.                                             *)
(***************************************************************************)
RecordSession(q, entryMs, entryPos, pos) ==
  [q EXCEPT !.recorded = Append(@, [entryMs |-> entryMs, entryPos |-> entryPos,
                                    pos |-> pos])]

\* shutdown(): process.exit(0) takes the pending timers and the sockets along
QlShutdown(q) ==
  [q EXCEPT !.statusTimer = FALSE, !.client = 0, !.exited = TRUE, !.timers = 0,
            !.live = {}]

QlConnectToQueue(q) ==
  [q EXCEPT !.created = @ + 1, !.client = q.created + 1,
            !.live = @ \cup {q.created + 1}]

\* the 'chat' listener on a message that carries a position; client.end()
\* on a client that is already null is an uncaught TypeError
QlOnChatPosition(q, pos) ==
  LET q1 == [q EXCEPT !.currentPos = pos]
  IN IF q1.sessionEntryPos = Null
       THEN [q1 EXCEPT !.sessionEntryPos = pos, !.sessionEntryMs = now,
                       !.statusTimer = TRUE]
     ELSE IF pos <= RELOG_THRESHOLD
       THEN LET q2 == [RecordSession(q1, q1.sessionEntryMs, q1.sessionEntryPos, pos)
                         EXCEPT !.statusTimer = FALSE, !.sessionEntryPos = Null,
                                !.sessionEntryMs = Null]
            IN IF q2.client = 0 THEN QlShutdown(q2) ELSE q2
     ELSE q1

QlOnDisconnect(q) ==
  IF q.client = 0 THEN q
  ELSE
    LET q1 == [q EXCEPT !.client = 0, !.statusTimer = FALSE]
        q2 == IF /\ q1.sessionEntryPos # Null /\ q1.currentPos # Null
                 /\ q1.currentPos < q1.sessionEntryPos
                THEN RecordSession(q1, q1.sessionEntryMs, q1.sessionEntryPos,
                                   q1.currentPos)
                ELSE q1
        q3 == [q2 EXCEPT !.sessionEntryPos = Null, !.sessionEntryMs = Null,
                         !.currentPos = Null]
    IN IF BudgetElapsed THEN QlShutdown(q3) ELSE [q3 EXCEPT !.timers = @ + 1]

QlCommit(q) ==
  /\ ~ql.exited
  /\ q.timers <= MaxCollectorTimers
  /\ q.created <= MaxCollectorSessions
  /\ Len(q.recorded) <= MaxRecorded
  /\ ql' = q
  /\ UNCHANGED <<proxyVars, collector, afk, chat, etaLearner, now, estimate, called>>

\* the call of connectToQueue() that ends the script
QlMain == ql.created = 0 /\ QlCommit(QlConnectToQueue(ql))

QlTimerFires ==
  /\ ql.timers > 0
  /\ QlCommit(QlConnectToQueue([ql EXCEPT !.timers = @ - 1]))

QlChatPosition ==
  \E c \in ql.live, pos \in CollectorReadings : QlCommit(QlOnChatPosition(ql, pos))

\* a socket's 'end': its last event
QlSocketEnd ==
  \E c \in ql.live : QlCommit(QlOnDisconnect([ql EXCEPT !.live = @ \ {c}]))

\* a socket's 'error' or 'kick_disconnect': its 'end' is still to come
QlSocketError ==
  \E c \in ql.live : QlCommit(QlOnDisconnect(ql))

\* SIGINT or SIGTERM
QlSignal == ~ql.exited /\ QlCommit(QlShutdown(ql))

\* time passes once the script has run to its end
QlTick ==
  /\ ~ql.exited
  /\ ql.created > 0
  /\ \E t \in CollectorInstants : t > now /\ now' = t
  /\ UNCHANGED <<proxyVars, standaloneVars, etaLearner, estimate, called>>

QlNext ==
  \/ QlMain
  \/ QlTimerFires
  \/ QlChatPosition
  \/ QlSocketEnd
  \/ QlSocketError
  \/ QlSignal
  \/ QlTick

QlSpec == CollectorInit /\ [][QlNext]_vars

(***************************************************************************)
(* AntiAFK (src/unnamed/part_003) with the bot it steers.  a is the        *)
(* instance together with its bot.  Positions are whole blocks in the      *)
(* horizontal plane; the bot's physics moves the entity while a walking    *)
(* control is held.                                                        *)
(***************************************************************************)
TickNames == {"walk", "look", "swing"}
Directions == {"forward", "back", "left", "right"}
\* the random yaws and walking directions the model draws: along one axis
Yaws == {<<1, 0>>, <<-1, 0>>}
WalkChoices == {"forward", "back"}

Sign(n) == IF n > 0 THEN 1 ELSE IF n < 0 THEN -1 ELSE 0

\* the square of _distanceFromOrigin
DistanceFromOriginSq(a) ==
  IF a.origin = <<>> THEN 0
  ELSE (a.pos[1] - a.origin[1]) * (a.pos[1] - a.origin[1])
       + (a.pos[2] - a.origin[2]) * (a.pos[2] - a.origin[2])

IsTooFar(a) == DistanceFromOriginSq(a) >= MAX_DRIFT * MAX_DRIFT

\* bot.look(yaw) with the yaw that points at the origin
LookAtOrigin(a) ==
  [a EXCEPT !.heading = <<Sign(a.origin[1] - a.pos[1]), Sign(a.origin[2] - a.pos[2])>>]

\* bot.setControlState(control, true) and the setTimeout that releases it
Hold(a, control, kind) ==
  [a EXCEPT !.controls = @ \cup {control},
            !.stride = IF control \in Directions THEN MaxStride ELSE @,
            !.followUps = @ \cup {[kind |-> kind, control |-> control]}]

AntiAFK_Start(a) ==
  IF a.running THEN [a EXCEPT !.last = "start"]
  ELSE [a EXCEPT !.running = TRUE, !.origin = a.pos, !.timers = TickNames,
                 !.last = "start"]

AntiAFK_Stop(a) ==
  IF ~a.running THEN [a EXCEPT !.last = "stop"]
  ELSE [a EXCEPT !.running = FALSE, !.timers = {}, !.last = "stop",
                 !.controls = IF a.botOpen THEN {} ELSE @]

ReturnToOrigin(a) ==
  IF a.origin = <<>> \/ ~a.botOpen THEN a
  ELSE Hold(LookAtOrigin(a), "forward", "release")

\* _boundedWalk() without the branch that walks back
BoundedWalk_NeverSteers(a, yaw, dir) ==
  IF ~a.running \/ ~a.botOpen THEN a
  ELSE Hold([a EXCEPT !.heading = yaw], dir, "releaseAndCheck")

BoundedWalk(a, yaw, dir) ==
  IF ~a.running \/ ~a.botOpen THEN a
  ELSE IF IsTooFar(a) /\ a.origin # <<>>
    THEN Hold(LookAtOrigin(a), "forward", "release")
    ELSE Hold([a EXCEPT !.heading = yaw], dir, "releaseAndCheck")

RandomLook(a, yaw) ==
  IF ~a.running \/ ~a.botOpen THEN a ELSE [a EXCEPT !.heading = yaw]

\* tick of scheduleAction for the action called name
ScheduledTick(a, name, yaw, dir) ==
  IF ~a.running THEN a
  ELSE [(CASE name = "walk" -> BoundedWalk(a, yaw, dir)
           [] name = "look" -> RandomLook(a, yaw)
           [] OTHER -> a)
          EXCEPT !.last = name]

\* the callback of an action's own setTimeout
FollowUp(a, f) ==
  LET a1 == [a EXCEPT !.followUps = @ \ {f}, !.last = "followUp"]
  IN IF ~a1.botOpen THEN a1
     ELSE LET a2 == [a1 EXCEPT !.controls = @ \ {f.control}]
          IN IF f.kind = "releaseAndCheck" /\ IsTooFar(a2)
               THEN ReturnToOrigin(a2)
               ELSE a2

\* where the held walking control takes the entity, one block on
Step(a, control) ==
  LET h == a.heading
      d == CASE control = "forward" -> h
             [] control = "back" -> <<-h[1], -h[2]>>
             [] control = "left" -> <<-h[2], h[1]>>
             [] OTHER -> <<h[2], -h[1]>>
  IN <<a.pos[1] + d[1], a.pos[2] + d[2]>>

AntiAfkCommit(a) ==
  /\ afk' = a
  /\ UNCHANGED <<proxyVars, collector, ql, chat, etaLearner, now, estimate, called>>

AntiAfkStart == afk.last # "start" /\ AntiAfkCommit(AntiAFK_Start(afk))

AntiAfkStop == afk.last # "stop" /\ AntiAfkCommit(AntiAFK_Stop(afk))

AntiAfkTick ==
  \E name \in afk.timers, yaw \in Yaws, dir \in WalkChoices :
    \* walk ticks are at least 12 s apart, a walk's follow-ups at most 1.3 s
    /\ name = "walk" => afk.followUps = {}
    /\ AntiAfkCommit(ScheduledTick(afk, name, yaw, dir))

AntiAfkFollowUp ==
  \E f \in afk.followUps : AntiAfkCommit(FollowUp(afk, f))

\* the bot's physics
AntiAfkMove ==
  /\ afk.botOpen
  /\ afk.stride > 0
  /\ \E control \in afk.controls \cap Directions :
       LET to == Step(afk, control)
       IN /\ to[1] \in -MaxRange..MaxRange
          /\ to[2] \in -MaxRange..MaxRange
          /\ AntiAfkCommit([afk EXCEPT !.pos = to, !.stride = @ - 1, !.last = "move"])

\* the bot's connection closes: setControlState fails from now on
AntiAfkBotCloses ==
  /\ afk.botOpen
  /\ AntiAfkCommit([afk EXCEPT !.botOpen = FALSE, !.last = "close"])

AntiAfkNext ==
  \/ AntiAfkStart
  \/ AntiAfkStop
  \/ AntiAfkTick
  \/ AntiAfkFollowUp
  \/ AntiAfkMove
  \/ AntiAfkBotCloses

AntiAfkSpec == CollectorInit /\ [][AntiAfkNext]_vars

(***************************************************************************)
(* The text extractor on the components of incoming packets.               *)
(***************************************************************************)
Texts == {Undefined, JNull, JStr("A"), JStr("")}
Translations == {Undefined, JStr("T")}
ChildLists ==
  {Undefined,
   JArr(<<Node(JStr("B"), Undefined, Undefined, Undefined)>>),
   JArr(<<Node(JStr("B"), Undefined, Undefined, Undefined),
          Node(Undefined, JStr("C"), Undefined, JArr(<<JStr("D")>>))>>),
   Node(JStr("E"), Undefined, Undefined, Undefined)}
Arguments == {Undefined, JArr(<<JStr("W")>>), JNum(15)}

Nodes ==
  {Node(text, translate, extra, with) :
     text \in Texts, translate \in Translations,
     extra \in ChildLists, with \in Arguments}

Strings ==
  {JStr(s) : s \in {"", "hi", "Position in queue: 15", "{\"text\":", "\"hello\"",
                    "\"\\\"hello\\\"\"", "15", "null", "true", "[]", "{}",
                    "{\"text\":\"A\",\"extra\":[{\"text\":\"B\"}]}"}}

NbtString(s) == JObj(JStr("string"), JStr(s), Undefined, Undefined, Undefined, Undefined)

NbtComponents ==
  {NbtString("N"),
   JObj(JStr("compound"), Node(NbtString("N"), Undefined, Undefined, Undefined),
        Undefined, Undefined, Undefined, Undefined),
   JObj(JStr("list"), JArr(<<NbtString("N"), JStr("M")>>),
        Undefined, Undefined, Undefined, Undefined),
   JObj(JStr("list"),
        JObj(JStr("compound"), JArr(<<NbtString("N"), NbtString("O")>>),
             Undefined, Undefined, Undefined, Undefined),
        Undefined, Undefined, Undefined, Undefined),
   JObj(JStr("list"), JStr("L"), Undefined, Undefined, Undefined, Undefined),
   Node(NbtString("N"), Undefined,
        JObj(JStr("list"), JArr(<<NbtString("O")>>),
             Undefined, Undefined, Undefined, Undefined),
        Undefined),
   JObj(JNum(7), JNum(0), Undefined, Undefined, Undefined, Undefined)}

Components ==
  Nodes \cup Strings \cup NbtComponents
    \cup {Undefined, JNull, JNum(0), JNum(15), JBool(TRUE), JBool(FALSE),
          JArr(<<>>), JArr(<<JStr("A")>>)}

TextCommit(c) ==
  /\ chat' = c
  /\ UNCHANGED <<proxyVars, collector, ql, afk, etaLearner, now, estimate, called>>

\* a packet arrives with a component
PacketArrives ==
  \E component \in Components :
    /\ chat.component # component \/ chat.result.is \/ chat.collected.is
    /\ TextCommit([component |-> component, result |-> NoResult, collected |-> NoResult])

\* the listener calls _extractChatText on it
CallExtractChatText ==
  /\ ~chat.result.is
  /\ LET r == ExtractChatText(chat.component)
     IN TextCommit([chat EXCEPT !.result = [threw |-> r.threw, text |-> r.text, is |-> TRUE]])

\* the collector's listener calls its extractChatText on it
CollectorCallExtractChatText ==
  /\ ~chat.collected.is
  /\ LET r == CollectorExtractChatText(chat.component)
     IN TextCommit([chat EXCEPT !.collected = [threw |-> r.threw, text |-> r.text, is |-> TRUE]])

TextNext == PacketArrives \/ CallExtractChatText \/ CollectorCallExtractChatText

TextSpec == CollectorInit /\ [][TextNext]_vars

(***************************************************************************)
(* Properties of the connection lifecycle (under Spec).                    *)
(***************************************************************************)
\* an AntiAFK instance is running its timers
AfkRunning == antiAfk = "running" \/ orphanAfk > 0

\* C1: the anti-AFK scheduler runs only while the lifecycle is connected
\* (queue finished) and no player is attached to the local proxy.
C1_AfkOnlyWhenConnectedAndUnattended ==
  AfkRunning => (finishedQueue /\ state.doing = "connected" /\ ~proxyClient /\ ~playerLive)

\* C2: when 'error' and then 'end' fire for the same failure of a client, the
\* second notification is a no-op: no log entry, no reconnect timer, no
\* persisted session, whatever the configuration.
C2_SecondNotificationIsNoOp ==
  [][(sock = "errored" /\ ClientEnd) =>
       (/\ logged' = 0
        /\ reconnectTimer' = reconnectTimer
        /\ orphanTimers' = orphanTimers
        /\ pings' = pings
        /\ etaLearner' = etaLearner
        /\ state' = state)]_vars

\* C3: after the operator's stop(), and until the operator's next start(),
\* the lifecycle is idle and not in the queue, no reconnect timer is pending,
\* and no connection exists.
C3_StopHoldsUntilStart ==
  operatorStopped =>
    (/\ state.doing = "idle"
     /\ ~state.isInQueue
     /\ reconnectTimer # "pending"
     /\ orphanTimers = 0
     /\ ~conn)

\* C4: a disconnect signal in a non-idle state moves the lifecycle to
\* reconnecting when auto-reconnect is enabled and the operator did not stop,
\* and to idle otherwise.
C4_DisconnectMovesToReconnectingOrIdle ==
  [][((ClientError \/ ClientEnd) /\ state.doing # "idle") =>
       state'.doing = (IF cfgReconnectOnError /\ ~stoppedByPlayer
                         THEN "reconnecting" ELSE "idle")]_vars

\* the finish marker was processed with auto-restart on and no player
\* attached: _cleanup ran, _reconnect is waiting for the server's ping
RestartInProgress ==
  state.isInQueue /\ ~conn /\ state.doing = "reconnecting" /\ ~stoppedByPlayer

\* C5: after an auto-restart at the finish marker, a successful ping makes
\* start() create a new upstream connection and the lifecycle queues again.
C5_RestartRequeues ==
  [][(RestartInProgress /\ PingOkWith(TRUE)) =>
       (conn' /\ state'.doing = "queue")]_vars

\* C6: the loss of the live upstream connection, with auto-reconnect enabled
\* and the lifecycle not stopped by the operator, is never ignored: it is
\* logged, the lifecycle leaves the queue for reconnecting and a reconnect
\* timer is pending.
C6_DisconnectSchedulesReconnect ==
  [][(sock = "open" /\ (ClientError \/ ClientEnd)
        /\ cfgReconnectOnError /\ ~stoppedByPlayer /\ ~operatorStopped) =>
       (/\ logged' > 0
        /\ ~state'.isInQueue
        /\ state'.doing = "reconnecting"
        /\ reconnectTimer' = "pending")]_vars

(***************************************************************************)
(* Properties of the ETALearner's session bookkeeping (under LearnerSpec). *)
(***************************************************************************)
SessionActive ==
  ~Falsy(etaLearner.sessionStartPos) /\ ~Falsy(etaLearner.sessionStartTime)

SessionCleared ==
  /\ etaLearner.sessionStartPos = Null
  /\ etaLearner.sessionStartTime = Null
  /\ etaLearner.activeSamples = <<>>

\* C7: when recordCompletedSession returns, no session is active: the start
\* position and start time are null and the sample window is empty, whether
\* the session was persisted or discarded.
C7_CompleteSessionClears ==
  [][(SessionActive /\ CallRecordCompletedSession) => SessionCleared']_vars

\* C8: the session list changes only by appending the session just completed,
\* and only if it lasted at least 2 minutes and its rate
\* round(startPos / durationHours) lies in (0, 10000].
C8_AppendOnlySaneSessions ==
  [][etaLearner'.sessions # etaLearner.sessions =>
       LET durationMs == now - etaLearner.sessionStartTime
           rate == MathRound(etaLearner.sessionStartPos * MS_PER_HOUR, durationMs)
           appended == etaLearner'.sessions[Len(etaLearner'.sessions)]
       IN /\ SessionActive
          /\ durationMs >= 120000
          /\ rate > 0 /\ rate <= 10000
          /\ appended.startPos = etaLearner.sessionStartPos
          /\ appended.durationMs = durationMs /\ appended.durationMs >= 120000
          /\ appended.positionsPerHour = rate
          /\ \/ etaLearner'.sessions = Append(etaLearner.sessions, appended)
             \/ etaLearner'.sessions = Tail(Append(etaLearner.sessions, appended))]_vars

\* a session completed in this run was appended to the history
AppendedInRun ==
  /\ etaLearner.sessions # <<>>
  /\ etaLearner.sessions[Len(etaLearner.sessions)].endTimeMs > StartClock

C8_Witness ==
  /\ AppendedInRun
  /\ etaLearner.sessions[Len(etaLearner.sessions)].positionsPerHour = 250

EstimatedFromBaseOnly ==
  /\ estimate # NoEstimate
  /\ estimate.pos > 0
  /\ etaLearner.sessions = <<>>
  /\ GetLiveRate(etaLearner) = NoRate

\* C10, as claimed: with an empty history and no live rate, estimateMinutes
\* returns exactly round(baseMinutes).
C10_EqualsRoundedBase ==
  EstimatedFromBaseOnly =>
    estimate.result = MathRound(estimate.base.num, estimate.base.den)

\* C10, amended: with an empty history and no live rate, estimateMinutes
\* returns round(baseMinutes) floored at 1 minute.
C10_EqualsRoundedBaseFlooredAtOne ==
  EstimatedFromBaseOnly =>
    estimate.result =
      (IF 2 * estimate.base.num >= estimate.base.den
         THEN MathRound(estimate.base.num, estimate.base.den)
         ELSE 1)

C10_Witness ==
  /\ EstimatedFromBaseOnly
  /\ Len(etaLearner.activeSamples) >= 5
  /\ estimate.base = Frac(480, 1)
  /\ estimate.result = 480

\* the historical and the live candidate of the last estimateMinutes call
HistoricalPresent ==
  /\ GetHistoricalRate(etaLearner, now) # NoHistory
  /\ GetHistoricalRate(etaLearner, now).rate.num > 0

LivePresent == GetLiveRate(etaLearner) # NoRate

\* the minutes a rate (positions per hour) implies for the estimated position
ImpliedMinutes(rate) == FracMul(Frac(estimate.pos * 60, 1), FracInv(rate))

HistoricalWeight ==
  IF HistoricalPresent
    THEN Min(50, 4 * GetHistoricalRate(etaLearner, now).effectiveSessions) ELSE 0

LiveWeight == IF LivePresent THEN Min(40, 2 * Len(etaLearner.activeSamples)) ELSE 0

\* the average of the candidates' minutes, weighted 0.5 (base),
\* min(0.5, 0.04 * effectiveSessions) and min(0.4, 0.02 * sampleCount), the
\* weights renormalized to sum to 1
WeightedAverage ==
  LET baseTerm == FracMul(estimate.base, Frac(50, 1))
      histTerm == IF HistoricalPresent
                    THEN FracMul(ImpliedMinutes(GetHistoricalRate(etaLearner, now).rate),
                                 Frac(HistoricalWeight, 1))
                    ELSE Frac(0, 1)
      liveTerm == IF LivePresent
                    THEN FracMul(ImpliedMinutes(GetLiveRate(etaLearner)), Frac(LiveWeight, 1))
                    ELSE Frac(0, 1)
  IN FracMul(FracAdd(FracAdd(baseTerm, histTerm), liveTerm),
             Frac(1, 50 + HistoricalWeight + LiveWeight))

\* C11: estimateMinutes returns an integer of at least 1, for every position,
\* base estimate, stored history and live window.
C11_EstimateIsPositiveInteger ==
  estimate # NoEstimate => (estimate.result \in Nat /\ estimate.result >= 1)

C11_Witness ==
  /\ estimate # NoEstimate
  /\ estimate.pos > 0
  /\ estimate.base.num < 0
  /\ HistoricalPresent /\ LivePresent
  /\ estimate.result = 1

\* C12: estimateMinutes equals max(1, round(weighted average)) of the base
\* candidate (weight 0.5), the historical candidate (present only for a
\* positive historical rate, weight min(0.5, 0.04 * effectiveSessions)) and
\* the live candidate (present only when a live rate exists, weight
\* min(0.4, 0.02 * sampleCount)), the weights renormalized.
C12_EstimateIsRoundedWeightedAverage ==
  estimate # NoEstimate =>
    estimate.result = Max(1, MathRound(WeightedAverage.num, WeightedAverage.den))

C12_Witness ==
  /\ estimate # NoEstimate
  /\ HistoricalPresent /\ LivePresent
  /\ estimate.pos = 300
  /\ estimate.base = Frac(480, 1)
  /\ estimate.result > 1 /\ estimate.result < 480

\* the live window shows the position falling at a constant rate
ConstantRateWindow ==
  /\ Len(etaLearner.activeSamples) >= 2
  /\ \A i \in 2..Len(etaLearner.activeSamples) :
       /\ etaLearner.activeSamples[i].pos < etaLearner.activeSamples[i - 1].pos
       /\ (etaLearner.activeSamples[i].pos - etaLearner.activeSamples[i - 1].pos)
            * (etaLearner.activeSamples[2].time - etaLearner.activeSamples[1].time)
          = (etaLearner.activeSamples[2].pos - etaLearner.activeSamples[1].pos)
            * (etaLearner.activeSamples[i].time - etaLearner.activeSamples[i - 1].time)

\* estimateMinutes was called while the live rate implied a completion
\* earlier than the base estimate
LiveFasterThanBase ==
  /\ estimate # NoEstimate
  /\ ConstantRateWindow
  /\ LivePresent
  /\ FracLess(ImpliedMinutes(GetLiveRate(etaLearner)), estimate.base)

\* C13, as claimed: when the live rate implies a completion earlier than the
\* base estimate, estimateMinutes returns less than the base estimate,
\* whatever the stored history.
C13_LiveFasterMeansBelowBase ==
  LiveFasterThanBase => FracLess(Frac(estimate.result, 1), estimate.base)

\* C13, amended: when the live rate implies a completion earlier than the
\* base estimate and the history gives no candidate above the base estimate,
\* the weighted average is below the base estimate and estimateMinutes
\* returns at most max(1, round(baseMinutes)).
C13_LiveFasterNeverRaisesEstimate ==
  (/\ LiveFasterThanBase
   /\ HistoricalPresent =>
        FracLeq(ImpliedMinutes(GetHistoricalRate(etaLearner, now).rate), estimate.base))
  => /\ FracLess(WeightedAverage, estimate.base)
     /\ estimate.result <= Max(1, MathRound(estimate.base.num, estimate.base.den))

C13_Witness ==
  /\ LiveFasterThanBase
  /\ HistoricalPresent
  /\ FracLeq(ImpliedMinutes(GetHistoricalRate(etaLearner, now).rate), estimate.base)
  /\ estimate.pos = 500
  /\ estimate.base = Frac(480, 1)
  /\ estimate.result < 480

\* C16: _getHistoricalRate returns "no data" for an empty history; for a
\* non-empty one its effectiveSessions is at least 1 and at most the number
\* of stored sessions.
C16_EffectiveSessionsWithinCount ==
  estimate # NoEstimate =>
    LET historical == GetHistoricalRate(etaLearner, now)
    IN IF etaLearner.sessions = <<>>
         THEN historical = NoHistory
         ELSE /\ historical # NoHistory
              /\ historical.effectiveSessions >= 1
              /\ historical.effectiveSessions <= Len(etaLearner.sessions)

C16_Witness ==
  /\ estimate # NoEstimate
  /\ etaLearner.sessions = MixedHistory
  /\ GetHistoricalRate(etaLearner, now).effectiveSessions < Len(etaLearner.sessions)

(***************************************************************************)
(* Properties of the live-sample window.                                   *)
(***************************************************************************)
\* C14: the live window holds at most 30 samples; recordSample appends the
\* new sample at the end, keeps the earlier ones in arrival order and drops
\* only the oldest when the window overflows.
C14_WindowKeepsLast30 ==
  /\ [](Len(etaLearner.activeSamples) <= 30)
  /\ [][RecordSampleLater =>
          LET old == etaLearner.activeSamples
              new == etaLearner'.activeSamples
              pushed == Append(old, new[Len(new)])
          IN /\ Len(new) = Min(30, Len(old) + 1)
             /\ new[Len(new)].time = now'
             /\ new = SubSeq(pushed, Len(pushed) - Len(new) + 1, Len(pushed))]_vars

C14_Witness ==
  /\ Len(etaLearner.activeSamples) = 30
  /\ etaLearner.activeSamples[30].time > StartClock
  /\ etaLearner.activeSamples[1].pos = 490

\* C15: beginSession called while a session is active changes nothing.
C15_BeginSessionWhileActiveIsNoOp ==
  [][(SessionActive /\ CallBeginSession) => etaLearner' = etaLearner]_vars

(***************************************************************************)
(* Properties of the queue's position readings and the finish marker.      *)
(***************************************************************************)
\* the handler of this step read position p from a tab header
ReadPosition(p) ==
  /\ ~finishedQueue
  /\ lastQueuePlace' = p
  /\ \E baseMinutes \in QueueBaseMinutes : PositionPacketWith("position", p, baseMinutes)

\* C17: the lifecycle enters connected, marks the queue finished and emits
\* queueFinished only in a step of the chat handler's finish marker; a tab
\* header packet, a reading of 0 included, does none of the three.
C17_FinishedOnlyByMarker ==
  /\ [][(\/ state'.doing = "connected" /\ state.doing # "connected"
         \/ finishedQueue' /\ ~finishedQueue
         \/ "queueFinished" \in effects') => FinishMarker]_vars
  /\ [][(\/ state'.doing # state.doing
         \/ finishedQueue' # finishedQueue
         \/ "queueFinished" \in effects') => ~PositionPacket]_vars

C17_Witness ==
  /\ lastQueuePlace = 0
  /\ state.queuePlace = 0
  /\ "queueUpdate" \in effects
  /\ state.doing = "queue"
  /\ ~finishedQueue

\* the finish marker arrives while the last reading is nonzero
MarkerAtNonzeroPosition == lastQueuePlace > 0 /\ FinishMarker

\* C18 as stated: the finish marker at a nonzero last position always moves
\* the lifecycle to connected.
C18_MarkerAlwaysConnects ==
  [][MarkerAtNonzeroPosition => state'.doing = "connected"]_vars

\* C18: the finish marker at a nonzero last position moves the lifecycle to
\* connected and marks the queue finished, unless auto-restart is on and no
\* player is attached: then the connection is dropped for a new queue run
\* and the lifecycle is not connected.
C18_MarkerConnectsUnlessRestarting ==
  [][MarkerAtNonzeroPosition =>
       IF state.restartQueue /\ ~proxyClient
         THEN state'.doing # "connected" /\ ~finishedQueue' /\ ~client'
         ELSE /\ state'.doing = "connected"
              /\ finishedQueue'
              /\ state'.queuePlace = DONE
              /\ "queueFinished" \in effects']_vars

C18_Witness ==
  /\ state.doing = "connected"
  /\ lastQueuePlace = 15
  /\ "queueFinished" \in effects

\* C19: a position reading that differs from the connection's previous one
\* emits queueUpdate with a chart point and the new position and estimate
\* in the state; a repeated reading emits nothing, leaves state and
\* estimate alone and only hands the sample to the learner; and queueUpdate
\* is emitted by no other step.
C19_QueueUpdateExactlyOnChange ==
  /\ [][\A p \in Readings :
          ReadPosition(p) =>
            IF lastQueuePlace # p
              THEN /\ {"queueUpdate", "chartPoint"} \subseteq effects'
                   /\ state'.queuePlace = p
                   /\ estimate'.pos = p
                   /\ lastQueuePlace' = p
              ELSE /\ effects' = {}
                   /\ state' = state
                   /\ estimate' = estimate
                   /\ logged' = 0
                   /\ etaLearner' = RecordSample(etaLearner, p, now)]_vars
  /\ [][("queueUpdate" \in effects' \/ "chartPoint" \in effects') =>
          \E p \in Readings : ReadPosition(p) /\ lastQueuePlace # p]_vars

C19_Witness ==
  /\ lastQueuePlace = 15
  /\ state.queuePlace = 15
  /\ called = "recordSample"
  /\ effects = {}
  /\ Len(etaLearner.activeSamples) = 3

C21_OneReconnectTimer == collector.timers <= 1

\* this step reads position p, at or under the relog threshold, in a session
\* that started above p
RelogBelowStart(p) ==
  /\ p <= RELOG_THRESHOLD
  /\ collector.sessionActive
  /\ collector.learner.sessionStartPos > p
  /\ collector'.lastPosition = p
  /\ \E c \in collector.live \ collector.finished, saveOk \in BOOLEAN :
       CollectorPacketWith(c, "position", p, saveOk)

\* this step appended the session that started at the learner's start
\* position, with a positive rate
PartialSessionPersisted ==
  LET old == collector.learner.sessions
      new == collector'.learner.sessions
  IN /\ Len(new) = Len(old) + 1
     /\ new[Len(new)].startPos = collector.learner.sessionStartPos
     /\ new[Len(new)].endTimeMs = now
     /\ new[Len(new)].positionsPerHour > 0

\* C22 as stated: every reading at or under the relog threshold and under
\* the session's start persists the partial session with a positive rate.
C22_RelogAlwaysPersists ==
  [][\A p \in CollectorReadings : RelogBelowStart(p) => PartialSessionPersisted]_vars

\* C22: such a reading persists the partial session, with a positive rate
\* computed from the start position, when the session lasted 2 minutes and
\* that rate is at most 10000; otherwise the history is left as it was.
C22_RelogPersistsSaneSession ==
  [][\A p \in CollectorReadings :
       RelogBelowStart(p) =>
         LET durationMs == now - collector.learner.sessionStartTime
             rate == PositionsPerHour(collector.learner.sessionStartPos, durationMs)
         IN IF durationMs >= MIN_SESSION_MS /\ rate > 0 /\ rate <= MAX_RATE
              THEN /\ PartialSessionPersisted
                   /\ collector'.learner.sessions[Len(collector'.learner.sessions)]
                         .positionsPerHour = rate
              ELSE collector'.learner.sessions = collector.learner.sessions]_vars

C22_Witness ==
  /\ Len(collector.learner.sessions) = 1
  /\ collector.learner.sessions[1].startPos = 500
  /\ collector.learner.sessions[1].positionsPerHour > 0
  /\ collector.lastPosition = RELOG_THRESHOLD
  /\ collector.client = 0
  /\ collector.timers = 1
  /\ collector.sessionCount = 1

\* C23: a disconnect ('end' or 'error' of a connection) appends a session
\* to the history only if the current position is strictly under the
\* session's start position.
C23_DisconnectSavesOnlyProgress ==
  [][(/\ Len(collector'.learner.sessions) > Len(collector.learner.sessions)
      /\ (CollectorSocketEnd \/ CollectorSocketError))
       => collector.lastPosition < collector.learner.sessionStartPos]_vars

(***************************************************************************)
(* Properties of src/queuelearner.js (under QlSpec).                       *)
(***************************************************************************)
\* C24: once the run-duration budget has elapsed, no step opens a new
\* connection: not a disconnect, and not a reconnect timer set before.
C24_NoConnectionAfterBudget ==
  [][BudgetElapsed => ql'.created = ql.created]_vars


(***************************************************************************)
(* Properties of AntiAFK (under AntiAfkSpec).                              *)
(***************************************************************************)

\* C25: once stop() has returned, and until the next start(), running is
\* false, the timer set is empty and no callback sets a control input to
\* active, the follow-up callbacks of an action in flight included.
C25_StoppedSetsNoControl ==
  [][/\ (afk'.last = "stop" => ~afk'.running /\ afk'.timers = {})
     /\ (~afk.running /\ ~afk'.running => afk'.controls \subseteq afk.controls)]_vars

\* C26: every call of stop() leaves no input held, whether or not the
\* scheduler was running, as long as the bot can still take the reset.
C26_StopAlwaysResets ==
  afk.last = "stop" /\ afk.botOpen => afk.controls = {}

\* C27: while the scheduler is running the entity stays within MAX_DRIFT
\* blocks of the origin recorded at start().
C27_WithinMaxDrift ==
  afk.running /\ afk.origin # <<>> =>
    DistanceFromOriginSq(afk) <= MAX_DRIFT * MAX_DRIFT


(***************************************************************************)
(* Cancellation of the lifecycle's timers (under Spec).                    *)
(***************************************************************************)

\* C28: stop() cancels every pending timer before it releases the upstream
\* connection: once the operator stopped the lifecycle and the connection
\* is torn down, no reconnect timer fires.
C28_NoTimerAfterTeardown ==
  [][operatorStopped /\ ~conn => ~(ReconnectTimerFires \/ OrphanTimerFires)]_vars


(***************************************************************************)
(* Properties of the text extractor (under TextSpec).                      *)
(***************************************************************************)
\* text that JSON.parse rejects
LiteralText(v) == v.k = "string" /\ JSONParse(v.s).k = "undefined"

RECURSIVE PlainTree(_)
\* a component without NBT tags whose texts are literal and whose extra
\* and with, where present, are arrays of such components
PlainTree(v) ==
  \/ LiteralText(v)
  \/ /\ v.k = "object"
     /\ v.type.k = "undefined"
     /\ v.text.k \in {"undefined", "null"} \/ LiteralText(v.text) \/ IsString(v.text, "")
     /\ v.translate.k = "undefined" \/ LiteralText(v.translate)
     /\ \A list \in {v.extra, v.with} :
          \/ list.k = "undefined"
          \/ /\ list.k = "array"
             /\ \A n \in 1..Len(list.items) : PlainTree(list.items[n])

RECURSIVE DepthFirst(_)
\* the flattening the claim describes: own text, the translate key of a
\* node without a text key, the extra children, the with children
DepthFirst(v) ==
  IF v.k = "string" THEN v.s
  ELSE LET Children(list) ==
             IF list.k = "undefined" THEN <<>> ELSE [n \in 1..Len(list.items) |-> DepthFirst(list.items[n])]
           Joined(texts) ==
             CASE Len(texts) = 0 -> ""
               [] Len(texts) = 1 -> texts[1]
               [] OTHER -> texts[1] \o texts[2]
       IN (IF v.text.k = "string" THEN v.text.s ELSE "")
          \o (IF v.text.k = "undefined" /\ v.translate.k = "string" THEN v.translate.s ELSE "")
          \o Joined(Children(v.extra))
          \o Joined(Children(v.with))

\* C29: a component is flattened depth first in the order own text, the
\* translate key only when the node has no text of its own, each extra
\* child, each with child; {text:"A", extra:[{text:"B"}]} gives "AB".
C29_FlattensInOrder ==
  chat.result.is /\ PlainTree(chat.component) =>
    /\ ~chat.result.threw
    /\ chat.result.text = DepthFirst(chat.component)
    /\ chat.component = ABNode => chat.result.text = "AB"

C29_Witness ==
  /\ chat.result.is
  /\ chat.component = ABNode
  /\ chat.result.text = "AB"

\* C30: the extractor never throws; null or absent gives "", a string that
\* is not JSON comes back unchanged, a JSON-encoded string is decoded and
\* flattened, and shapes it does not know give "".
C30_NeverThrows ==
  chat.result.is =>
    /\ ~chat.result.threw
    /\ chat.component.k \in {"undefined", "null"} => chat.result.text = ""
    /\ LiteralText(chat.component) => chat.result.text = chat.component.s
    /\ IsString(chat.component, "\"hello\"") => chat.result.text = "hello"
    /\ IsString(chat.component, "\"\\\"hello\\\"\"") => chat.result.text = "hello"
    /\ IsString(chat.component, "{\"text\":\"A\",\"extra\":[{\"text\":\"B\"}]}") =>
         chat.result.text = "AB"
    /\ chat.component.k = "array" => chat.result.text = ""
    /\ chat.component = Node(Undefined, Undefined, Undefined, Undefined) =>
         chat.result.text = ""

C30_Witness ==
  /\ chat.result.is
  /\ IsString(chat.component, "{\"text\":")
  /\ chat.result.text = "{\"text\":"
  /\ ~chat.result.threw

(***************************************************************************)
(* Persistence failures of the session store (under LearnerSpec).          *)
(***************************************************************************)
\* C31: an append whose write fails still leaves the new session in the
\* in-memory list and clears the active session as a successful one does;
\* the data file then either is untouched or, when the write goes through,
\* holds the whole list, sessions of earlier failed writes included.
C31_FailedWriteKeepsSession ==
  [][(called' = "recordCompletedSession"
        /\ etaLearner'.sessions # etaLearner.sessions) =>
       /\ SessionCleared'
       /\ etaLearner'.sessions[Len(etaLearner'.sessions)].endTimeMs = now
       /\ \/ etaLearner'.dataFile = etaLearner.dataFile
          \/ etaLearner'.dataFile = etaLearner'.sessions]_vars

\* a write failed, the session is in memory only, and the session state is clear
C31_Witness ==
  /\ called = "recordCompletedSession"
  /\ AppendedInRun
  /\ etaLearner.dataFile # etaLearner.sessions
  /\ etaLearner.dataFile = <<>>
  /\ SessionCleared

(***************************************************************************)
(* The live rate (under EstimateSpec).                                     *)
(***************************************************************************)
\* the window holds at least 5 samples, at least a minute lies between the
\* oldest and the newest, and the position fell
LiveRateDefined ==
  LET w == etaLearner.activeSamples
  IN /\ Len(w) >= 5
     /\ w[Len(w)].time - w[1].time >= 60000
     /\ w[1].pos > w[Len(w)].pos

\* positions crossed per hour between the oldest and the newest sample
PositionsPerElapsedHour ==
  LET w == etaLearner.activeSamples
  IN Frac((w[1].pos - w[Len(w)].pos) * MS_PER_HOUR, w[Len(w)].time - w[1].time)

\* the weighted average of the base and the historical candidate alone
AverageWithoutLive ==
  LET baseTerm == FracMul(estimate.base, Frac(50, 1))
      histTerm == IF HistoricalPresent
                    THEN FracMul(ImpliedMinutes(GetHistoricalRate(etaLearner, now).rate),
                                 Frac(HistoricalWeight, 1))
                    ELSE Frac(0, 1)
  IN FracMul(FracAdd(baseTerm, histTerm), Frac(1, 50 + HistoricalWeight))

\* C33: the live rate exists only for a window of at least 5 samples that
\* spans at least 1 minute and in which the position fell; it is then the
\* positions crossed divided by the hours elapsed; otherwise there is no
\* live rate and the estimate is blended from the other candidates alone.
C33_LiveRateOnlyWhenEstablished ==
  /\ LiveRateDefined => GetLiveRate(etaLearner) = PositionsPerElapsedHour
  /\ ~LiveRateDefined =>
       /\ GetLiveRate(etaLearner) = NoRate
       /\ estimate # NoEstimate =>
            estimate.result = Max(1, MathRound(AverageWithoutLive.num, AverageWithoutLive.den))

\* a window of 5 samples spanning exactly one minute gives a live rate
C33_Witness ==
  /\ estimate # NoEstimate
  /\ LiveRateDefined
  /\ Len(etaLearner.activeSamples) = 5
  /\ etaLearner.activeSamples[5].time - etaLearner.activeSamples[1].time = 60000
  /\ GetLiveRate(etaLearner) = Frac(4800, 1)

(***************************************************************************)
(* The spatial envelope of the walk (under AntiAfkSpec).                   *)
(***************************************************************************)
\* the bot was turned toward the origin, walks forward, and the release of
\* that walk is pending
ReturningToOrigin(a) ==
  /\ a.heading = <<Sign(a.origin[1] - a.pos[1]), Sign(a.origin[2] - a.pos[2])>>
  /\ "forward" \in a.controls
  /\ [kind |-> "release", control |-> "forward"] \in a.followUps

\* C32: a walk tick at a distance of MAX_DRIFT or more from the origin walks
\* toward the origin and picks no random direction, and the follow-up of a
\* random walk starts a walk back when the drift has reached MAX_DRIFT.
C32_SteersBackAtDriftBound ==
  [][/\ (afk'.last = "walk" /\ afk.botOpen /\ IsTooFar(afk)) =>
          /\ ReturningToOrigin(afk')
          /\ \A f \in afk'.followUps : f.kind # "releaseAndCheck"
     /\ (/\ afk'.last = "followUp"
         /\ afk.botOpen
         /\ IsTooFar(afk)
         /\ \E f \in afk.followUps \ afk'.followUps : f.kind = "releaseAndCheck") =>
          ReturningToOrigin(afk')]_vars

\* a walk tick found the bot 2 blocks out and turned it back
C32_Witness ==
  /\ afk.last = "walk"
  /\ afk.running
  /\ DistanceFromOriginSq(afk) = MAX_DRIFT * MAX_DRIFT
  /\ ReturningToOrigin(afk)

(***************************************************************************)
(* Failures to read the tab header (under QueueSpec).                      *)
(***************************************************************************)
\* a tab header arrives whose text cannot be read
UnreadableHeader == PositionPacketWith("throws", 0, Frac(3, 2))

\* C34: the first tab header of a connection that cannot be read is logged
\* once; every later one of that connection logs nothing; none of them
\* changes the lifecycle, the learner or the timers.  The latch is released
\* only by a new connection.
C34_ParseFailureLoggedOnce ==
  [][/\ (positionError' /\ lastQueuePlace' = lastQueuePlace /\ UnreadableHeader) =>
          /\ logged' = IF positionError THEN 0 ELSE 1
          /\ effects' = {}
          /\ UNCHANGED <<state, conn, client, sock, reconnectTimer, finishedQueue,
                         lastQueuePlace, etaLearner, estimate, notified>>
     /\ (positionError /\ ~positionError') =>
          /\ conn' /\ client' /\ sock' = "open"
          /\ lastQueuePlace' = None
          /\ state'.doing = "queue"]_vars

\* the first unreadable header of a connection was just logged
C34_Witness ==
  /\ positionError
  /\ logged = 1
  /\ client /\ sock = "open"
  /\ state.doing = "queue"
  /\ lastQueuePlace = 15

(***************************************************************************)
(* start() while already queueing (under Spec).                            *)
(***************************************************************************)
\* C35: start() called while isInQueue is true logs one warning and does
\* nothing else: no new connection, no cleanup, and the state snapshot, the
\* chart history and the timers stay as they were.
C35_StartWhileQueueingIsNoOp ==
  [][(state.isInQueue /\ ~operatorStopped' /\ Start) =>
       /\ logged' = 1
       /\ effects' = {}
       /\ UNCHANGED <<state, conn, client, server, proxyClient, sock, playerLive,
                      antiAfk, antiAfkPending, finishedQueue, stoppedByPlayer,
                      notificationSent, queueHandlingSetup, reconnectTimer,
                      orphanTimers, pings, staleEnds, stalePlayerEnds, orphanAfk,
                      lastQueuePlace, positionError, notified, etaLearner, estimate>>]_vars

\* the operator's start() found the lifecycle queueing on a live connection
C35_Witness ==
  /\ state.isInQueue /\ state.doing = "queue"
  /\ conn /\ client /\ sock = "open"
  /\ ~operatorStopped
  /\ logged = 1

(***************************************************************************)
(* The two text extractors side by side (under TextSpec).                  *)
(***************************************************************************)
\* C36: extractChatText of the collector and _extractChatText of the
\* ProxyManager return the same string for the same component.
C36_ExtractorsAgree ==
  chat.result.is /\ chat.collected.is =>
    /\ chat.collected.threw = chat.result.threw
    /\ chat.collected.text = chat.result.text

\* both flattened a component with text, extra and with children to "ABCDW"
C36_Witness ==
  /\ chat.result.is /\ chat.collected.is
  /\ chat.result.text = "ABCDW"
  /\ chat.collected.text = "ABCDW"

(***************************************************************************)
(* Disconnect notifications of replaced connections (under Spec).          *)
(***************************************************************************)
\* C37: the 'end' of a client that _cleanup already ended changes nothing:
\* not the lifecycle state, not the attached player, not the reconnect
\* timer of the connection that replaced it.
C37_StaleDisconnectIsNoOp ==
  [][(staleEnds' < staleEnds /\ StaleClientEnd) =>
       /\ logged' = 0
       /\ UNCHANGED <<state, conn, client, sock, proxyClient, playerLive,
                      antiAfk, reconnectTimer>>]_vars

(***************************************************************************)
(* Scheduler instances (under Spec).                                       *)
(***************************************************************************)
\* C38: no AntiAFK instance keeps running once the proxy's reference has
\* moved on to a new instance: every running scheduler is the one
\* this.antiAfk refers to.
C38_OneSchedulerInstance == orphanAfk = 0

(***************************************************************************)
(* The reconnect guard of onDisconnect (under Spec).                       *)
(***************************************************************************)
\* C39: while an upstream connection is live (conn set, the lifecycle
\* queueing or connected) this.reconnectTimer is null, so the guard of
\* onDisconnect cannot swallow the disconnect of the live connection.
C39_NoTimerWhileConnectionLive ==
  (conn /\ client /\ sock = "open" /\ state.doing \in {"queue", "connected"}) =>
    reconnectTimer = "null"

(***************************************************************************)
(* The operator's idle-prevention switch (under Spec).                     *)
(***************************************************************************)
\* the operator's toggleAntiAfk() stopped the scheduler and no toggle
\* followed: the instance exists, is stopped, and antiAfkPending is false
\* (every automatic start sets antiAfkPending, stop() drops the instance)
OperatorTurnedAfkOff == antiAfk = "stopped" /\ ~antiAfkPending

\* C40: once the operator has turned idle prevention off, only the
\* operator's next toggleAntiAfk() starts a scheduler again; the end of the
\* queue and the departure of a player do not.
C40_OffUntilToggledOn ==
  [][(OperatorTurnedAfkOff /\ antiAfk' = "running") => ToggleAntiAfk]_vars

====
